---- MODULE Spec2Model ----
(***************************************************************************)
(* Incremental codec combinators (combinator.rs): decoders and encoders    *)
(* as state machines driven by a caller that offers byte windows.          *)
(*                                                                         *)
(* A decoder is a record tree: its field t names the combinator, the other *)
(* fields are the struct's fields.  Decode(d, buf) is one call of          *)
(* Decode::decode: it returns the decoder after the call, the buffer after *)
(* the call (consumed bytes dropped from the front) and the result.        *)
(***************************************************************************)
EXTENDS Integers, Sequences, FiniteSets, TLC

\* ------------------------------------------------------------------ bounds
MaxLen == 3          \* longest input stream offered to a decoder
MaxCalls == 4        \* decode calls made by the driver in one run
LoopFuel == 6        \* iterations of Collect's while loop followed in one call
MaxBuf == 4          \* longest output buffer offered to an encoder
MaxOps == 5          \* start_encoding and encode calls made in one run
MaxCount == 9        \* largest finite ByteCount compared
UsizeBits == 4       \* width of usize in the cursor arithmetic of DecodeBuf

Bytes == {0, 1}

\* ----------------------------------------------------------- small helpers
Min(a, b) == IF a <= b THEN a ELSE b

Prefix(s, k) == SubSeq(s, 1, k)

DropN(s, k) == SubSeq(s, k + 1, Len(s))

IsPrefix(s, t) == Len(s) <= Len(t) /\ Prefix(t, Len(s)) = s

None == [some |-> FALSE]

Some(x) == [some |-> TRUE, v |-> x]

\* Result<Option<Item>>
OkSome(x) == [k |-> "some", v |-> x]

OkNone == [k |-> "none"]

Err(e) == [k |-> "err", e |-> e]

OkUnit == [k |-> "ok"]

Ret(d, buf, r) == [d |-> d, buf |-> buf, r |-> r]

\* --------------------------------------------------------------- DecodeBuf
\* The bytes not yet consumed of the window, and the remaining-bytes hint.
DecodeBuf(bytes, rem) == [bytes |-> bytes, rem |-> rem]

is_eos(buf) == buf.rem.some /\ buf.rem.v = 0

is_empty(buf) == Len(buf.bytes) = 0

\* Read::read into a destination of len bytes: min(available, len) bytes are
\* copied from the front of the unread bytes and the cursor moves past them.
read(buf, len) ==
    LET size == Min(Len(buf.bytes), len)
    IN  [buf |-> [buf EXCEPT !.bytes = DropN(buf.bytes, size)],
         data |-> Prefix(buf.bytes, size),
         size |-> size]

consume_all(buf) == [buf EXCEPT !.bytes = <<>>]

\* The view an inner decoder gets from with_limit_and_remaining_bytes.
with_limit_and_remaining_bytes(buf, limit, remaining_bytes) ==
    DecodeBuf(Prefix(buf.bytes, limit), Some(remaining_bytes))

\* The view an inner decoder gets from with_limit: the hidden bytes are still
\* to come, so they are added to a known hint.
with_limit(buf, limit) ==
    DecodeBuf(Prefix(buf.bytes, limit),
              IF buf.rem.some
              THEN Some(buf.rem.v + (Len(buf.bytes) - limit))
              ELSE None)

\* The outer buffer once the closure of with_limit* has returned: what the
\* inner decoder left of its view, followed by the bytes beyond the limit.
restore_limit(buf, limit, inner) ==
    [buf EXCEPT !.bytes = inner.bytes \o DropN(buf.bytes, limit)]

\* ------------------------------------------------------ decoder constructors
\* Primitive: an item of exactly n bytes (U8Decoder is FixedDecoder(1)).
FixedDecoder(n) == [t |-> "Fixed", n |-> n, acc |-> <<>>]

\* Primitive: every byte up to end-of-stream is one item (Utf8Decoder).
RestDecoder == [t |-> "Rest", acc |-> <<>>]

Take_new(decoder, count) ==
    [t |-> "Take", decoder |-> decoder, limit |-> count, decoded_items |-> 0]

Length_new(inner, expected_bytes) ==
    [t |-> "Length", inner |-> inner, expected_bytes |-> expected_bytes,
     remaining_bytes |-> expected_bytes]

AndThen_new(decoder0, and_then) ==
    [t |-> "AndThen", decoder0 |-> decoder0, decoder1 |-> None,
     and_then |-> and_then]

Collect_new(decoder) == [t |-> "Collect", decoder |-> decoder, items |-> None]

SkipRemaining_new(decoder) ==
    [t |-> "SkipRemaining", decoder |-> decoder, item |-> None]

MaxBytes_new(codec, max_bytes) ==
    [t |-> "MaxBytes", codec |-> codec, consumed_bytes |-> 0,
     max_bytes |-> max_bytes]

Omit_new(decoder, do_omit) ==
    [t |-> "Omit", inner |-> IF do_omit THEN None ELSE Some(decoder)]

\* Mutant: the second decoder does not depend on the first item.
and_then_apply_fixed(f, item) == FixedDecoder(1)

\* The closures given to and_then in this model: the first item is a length
\* prefix, the second decoder reads that many bytes (plus one).
and_then_apply(f, item) ==
    IF f = "fixed" THEN FixedDecoder(item[1] + 1)
    ELSE Length_new(RestDecoder, item[1] + 1)


RECURSIVE Decode(_, _), has_terminated(_), is_idle(_), Collect_loop(_, _, _, _)

\* ------------------------------------------------------- primitive decoders
\* Fixed-size item: reads into the unfilled part of its n-byte buffer until n
\* bytes have arrived; end-of-stream before that is UnexpectedEos.
Fixed_decode(d, buf) ==
    LET x    == read(buf, d.n - Len(d.acc))
        acc  == d.acc \o x.data
        buf1 == x.buf
    IN  IF Len(acc) = d.n
        THEN Ret([d EXCEPT !.acc = <<>>], buf1, OkSome(acc))
        ELSE IF is_eos(buf1)
        THEN Ret([d EXCEPT !.acc = acc], buf1, Err("UnexpectedEos"))
        ELSE Ret([d EXCEPT !.acc = acc], buf1, OkNone)

\* All bytes up to end-of-stream: consumes the whole window, yields the
\* collected bytes when the window is the last one.
Rest_decode(d, buf) ==
    LET acc  == d.acc \o buf.bytes
        buf1 == consume_all(buf)
    IN  IF is_eos(buf)
        THEN Ret([d EXCEPT !.acc = <<>>], buf1, OkSome(acc))
        ELSE Ret([d EXCEPT !.acc = acc], buf1, OkNone)

\* ------------------------------------------------------------------ AndThen
AndThen_decode(d, buf) ==
    IF d.decoder1.some
    THEN LET x == Decode(d.decoder1.v, buf)
         IN  IF x.r.k = "some"
             THEN Ret([d EXCEPT !.decoder1 = None], x.buf, x.r)
             ELSE Ret([d EXCEPT !.decoder1 = Some(x.d)], x.buf, x.r)
    ELSE LET x0 == Decode(d.decoder0, buf)
             d0 == [d EXCEPT !.decoder0 = x0.d]
         IN  IF x0.r.k # "some"
             THEN Ret(d0, x0.buf, x0.r)
             ELSE LET x1 == Decode(and_then_apply(d.and_then, x0.r.v), x0.buf)
                  IN  IF x1.r.k = "some"
                      THEN Ret([d0 EXCEPT !.decoder1 = None], x1.buf, x1.r)
                      ELSE Ret([d0 EXCEPT !.decoder1 = Some(x1.d)], x1.buf, x1.r)

AndThen_has_terminated(d) ==
    IF d.decoder1.some THEN has_terminated(d.decoder1.v)
    ELSE has_terminated(d.decoder0)

AndThen_is_idle(d) == ~d.decoder1.some /\ is_idle(d.decoder0)

\* --------------------------------------------------------------------- Omit
\* Mutant: the inner item is handed on without the Some wrapper.
Omit_decode_unwrapped(d, buf) ==
    IF d.inner.some
    THEN LET x == Decode(d.inner.v, buf)
         IN  Ret([d EXCEPT !.inner = Some(x.d)], x.buf, x.r)
    ELSE Ret(d, buf, OkSome(None))

Omit_decode(d, buf) ==
    IF d.inner.some
    THEN LET x == Decode(d.inner.v, buf)
             d1 == [d EXCEPT !.inner = Some(x.d)]
         IN  IF x.r.k = "some" THEN Ret(d1, x.buf, OkSome(Some(x.r.v)))
             ELSE Ret(d1, x.buf, x.r)
    ELSE Ret(d, buf, OkSome(None))

Omit_has_terminated(d) ==
    IF d.inner.some THEN has_terminated(d.inner.v) ELSE FALSE

Omit_is_idle(d) == IF d.inner.some THEN is_idle(d.inner.v) ELSE TRUE

\* ------------------------------------------------------------------ Collect
\* The while loop of Collect::decode; r is "exit" when the loop condition
\* turned false, the inner result when the loop returned early, and "diverge"
\* when the loop is still running after LoopFuel iterations.
Collect_loop(decoder, items, buf, fuel) ==
    IF (is_empty(buf) /\ is_eos(buf)) \/ has_terminated(decoder)
    THEN [d |-> decoder, items |-> items, buf |-> buf, r |-> [k |-> "exit"]]
    ELSE IF fuel = 0
    THEN [d |-> decoder, items |-> items, buf |-> buf, r |-> [k |-> "diverge"]]
    ELSE LET x == Decode(decoder, buf)
         IN  IF x.r.k = "some"
             THEN Collect_loop(x.d, Append(items, x.r.v), x.buf, fuel - 1)
             ELSE [d |-> x.d, items |-> items, buf |-> x.buf, r |-> x.r]

\* Mutant: every call starts from an empty container.
Collect_items_fresh(d) == <<>>

\* The container a call of Collect::decode extends: the partial aggregate of
\* the earlier calls, or T::default().
Collect_items(d) == IF d.items.some THEN d.items.v ELSE <<>>

Collect_decode(d, buf) ==
    LET items0 == Collect_items(d)
        l == Collect_loop(d.decoder, items0, buf, LoopFuel)
    IN  IF l.r.k = "exit"
        THEN Ret([d EXCEPT !.decoder = l.d, !.items = None], l.buf, OkSome(l.items))
        ELSE Ret([d EXCEPT !.decoder = l.d, !.items = Some(l.items)], l.buf, l.r)

Collect_has_terminated(d) == has_terminated(d.decoder)

Collect_is_idle(d) == ~d.items.some

\* ------------------------------------------------------------------- Length
Length_buf_len(d, buf) == Min(Len(buf.bytes), d.remaining_bytes)

\* Mutant: every window is taken to be the last of the frame.
Length_expected_remaining_bytes_none(d, buf) == 0

Length_expected_remaining_bytes(d, buf) ==
    d.remaining_bytes - Length_buf_len(d, buf)

\* Mutant: the hint is compared with the whole of the missing frame bytes,
\* the bytes in the window not counted.
Length_eos_check_window_ignored(d, buf) ==
    buf.rem.some => buf.rem.v >= d.remaining_bytes

\* The track_assert! on the remaining-bytes hint; FALSE is UnexpectedEos.
Length_eos_check(d, buf) ==
    buf.rem.some => buf.rem.v >= Length_expected_remaining_bytes(d, buf)

\* Mutant: the frame counter is not advanced when the inner decoder suspends.
Length_account_frozen(d, consumed, r) ==
    LET remaining_bytes == d.remaining_bytes - consumed
    IN  IF r.k = "some"
        THEN IF remaining_bytes # 0
             THEN [d |-> [d EXCEPT !.remaining_bytes = remaining_bytes],
                   r |-> Err("Other")]
             ELSE [d |-> [d EXCEPT !.remaining_bytes = d.expected_bytes],
                   r |-> r]
        ELSE [d |-> d, r |-> r]

\* Mutant: an item is passed on without the check that the frame is used up.
Length_account_unchecked(d, consumed, r) ==
    LET remaining_bytes == d.remaining_bytes - consumed
    IN  IF r.k = "some"
        THEN [d |-> [d EXCEPT !.remaining_bytes = d.expected_bytes], r |-> r]
        ELSE [d |-> [d EXCEPT !.remaining_bytes = remaining_bytes], r |-> r]

\* The accounting after the inner call returned Ok(r), consumed bytes taken
\* from the buffer: the decoder and the result of Length::decode.
Length_account(d, consumed, r) ==
    LET remaining_bytes == d.remaining_bytes - consumed
    IN  IF r.k = "some"
        THEN IF remaining_bytes # 0
             THEN [d |-> [d EXCEPT !.remaining_bytes = remaining_bytes],
                   r |-> Err("Other")]
             ELSE [d |-> [d EXCEPT !.remaining_bytes = d.expected_bytes],
                   r |-> r]
        ELSE [d |-> [d EXCEPT !.remaining_bytes = remaining_bytes], r |-> r]

Length_decode(d, buf) ==
    LET old_buf_len == Len(buf.bytes)
        buf_len == Length_buf_len(d, buf)
    IN  IF ~Length_eos_check(d, buf)
        THEN Ret(d, buf, Err("UnexpectedEos"))
        ELSE LET x == Decode(d.inner,
                        with_limit_and_remaining_bytes(buf, buf_len,
                            Length_expected_remaining_bytes(d, buf)))
                 buf1 == restore_limit(buf, buf_len, x.buf)
                 d1 == [d EXCEPT !.inner = x.d]
                 a == Length_account(d1, old_buf_len - Len(buf1.bytes), x.r)
             IN  IF x.r.k # "err" THEN Ret(a.d, buf1, a.r)
                 ELSE Ret(d1, buf1, x.r)

Length_has_terminated(d) ==
    IF d.remaining_bytes = d.expected_bytes THEN has_terminated(d.inner)
    ELSE FALSE

Length_is_idle(d) ==
    d.remaining_bytes = d.expected_bytes /\ is_idle(d.inner)

\* --------------------------------------------------------------------- Take
\* Mutant: the new length is taken whatever the state of the frame.
Length_set_expected_bytes_always(e, bytes) ==
    [e |-> [e EXCEPT !.expected_bytes = bytes, !.remaining_bytes = bytes],
     r |-> OkUnit]

\* Mutant: the new length replaces expected_bytes only.
Length_set_expected_bytes_expected_only(e, bytes) ==
    IF e.remaining_bytes # e.expected_bytes
    THEN [e |-> e, r |-> Err("Other")]
    ELSE [e |-> [e EXCEPT !.expected_bytes = bytes], r |-> OkUnit]

\* Length::set_expected_bytes, of the decoder and of the encoder alike.
Length_set_expected_bytes(e, bytes) ==
    IF e.remaining_bytes # e.expected_bytes
    THEN [e |-> e, r |-> Err("Other")]
    ELSE [e |-> [e EXCEPT !.expected_bytes = bytes, !.remaining_bytes = bytes],
          r |-> OkUnit]

\* Mutant: the cutoff test is made one item late.
Take_cutoff_late(d) == d.decoded_items = d.limit + 1

\* The track_assert_ne! of Take::decode; TRUE is DecoderTerminated.
Take_cutoff(d) == d.decoded_items = d.limit

Take_decode(d, buf) ==
    IF Take_cutoff(d)
    THEN Ret(d, buf, Err("DecoderTerminated"))
    ELSE LET x == Decode(d.decoder, buf)
             d1 == [d EXCEPT !.decoder = x.d]
         IN  IF x.r.k = "some"
             THEN Ret([d1 EXCEPT !.decoded_items = d.decoded_items + 1],
                      x.buf, x.r)
             ELSE Ret(d1, x.buf, x.r)

Take_has_terminated(d) ==
    has_terminated(d.decoder) \/ d.decoded_items = d.limit

Take_is_idle(d) == d.decoded_items = 0 \/ d.decoded_items = d.limit

\* ------------------------------------------------------------ SkipRemaining
\* Mutant: a stream of unknown length is accepted.
SkipRemaining_hint_any(buf) == TRUE

\* The assertion opening SkipRemaining::decode: the hint is known.
SkipRemaining_hint_known(buf) == buf.rem.some

SkipRemaining_decode(d, buf) ==
    IF ~SkipRemaining_hint_known(buf)
    THEN Ret(d, buf, Err("InvalidInput"))
    ELSE LET x == IF d.item.some
                  THEN Ret(d.decoder, buf, OkSome(d.item.v))
                  ELSE Decode(d.decoder, buf)
             d1 == [d EXCEPT !.decoder = x.d]
         IN  IF x.r.k = "err" THEN Ret(d1, x.buf, x.r)
             ELSE IF x.r.k = "some"
             THEN IF is_eos(x.buf)
                  THEN Ret([d1 EXCEPT !.item = None], consume_all(x.buf), x.r)
                  ELSE Ret([d1 EXCEPT !.item = Some(x.r.v)],
                           consume_all(x.buf), OkNone)
             ELSE Ret([d1 EXCEPT !.item = None], x.buf, OkNone)

SkipRemaining_has_terminated(d) ==
    IF ~d.item.some THEN has_terminated(d.decoder) ELSE FALSE

SkipRemaining_is_idle(d) == ~d.item.some /\ is_idle(d.decoder)

\* ----------------------------------------------------------------- MaxBytes
max_remaining_bytes(d) == d.max_bytes - d.consumed_bytes

MaxBytes_decode(d, buf) ==
    LET old_buf_len == Len(buf.bytes)
        actual_buf_len == Min(old_buf_len, max_remaining_bytes(d))
        x == Decode(d.codec, with_limit(buf, actual_buf_len))
        buf1 == restore_limit(buf, actual_buf_len, x.buf)
        d1 == [d EXCEPT !.codec = x.d]
        consumed_bytes == old_buf_len - Len(buf1.bytes)
        d2 == [d1 EXCEPT !.consumed_bytes = consumed_bytes]
    IN  IF x.r.k = "err" THEN Ret(d1, buf1, x.r)
        ELSE IF consumed_bytes = d.max_bytes /\ x.r.k # "some"
        THEN Ret(d2, buf1, Err("InvalidInput"))
        ELSE IF x.r.k = "some"
        THEN Ret([d2 EXCEPT !.consumed_bytes = 0], buf1, x.r)
        ELSE Ret(d2, buf1, x.r)

MaxBytes_has_terminated(d) == has_terminated(d.codec)

MaxBytes_is_idle(d) == is_idle(d.codec)

\* ----------------------------------------------------------------- dispatch
Decode(d, buf) ==
    CASE d.t = "Fixed" -> Fixed_decode(d, buf)
      [] d.t = "Rest" -> Rest_decode(d, buf)
      [] d.t = "AndThen" -> AndThen_decode(d, buf)
      [] d.t = "Omit" -> Omit_decode(d, buf)
      [] d.t = "Collect" -> Collect_decode(d, buf)
      [] d.t = "Length" -> Length_decode(d, buf)
      [] d.t = "Take" -> Take_decode(d, buf)
      [] d.t = "SkipRemaining" -> SkipRemaining_decode(d, buf)
      [] d.t = "MaxBytes" -> MaxBytes_decode(d, buf)

has_terminated(d) ==
    CASE d.t = "Fixed" -> FALSE
      [] d.t = "Rest" -> FALSE
      [] d.t = "AndThen" -> AndThen_has_terminated(d)
      [] d.t = "Omit" -> Omit_has_terminated(d)
      [] d.t = "Collect" -> Collect_has_terminated(d)
      [] d.t = "Length" -> Length_has_terminated(d)
      [] d.t = "Take" -> Take_has_terminated(d)
      [] d.t = "SkipRemaining" -> SkipRemaining_has_terminated(d)
      [] d.t = "MaxBytes" -> MaxBytes_has_terminated(d)

is_idle(d) ==
    CASE d.t = "Fixed" -> d.acc = <<>>
      [] d.t = "Rest" -> d.acc = <<>>
      [] d.t = "AndThen" -> AndThen_is_idle(d)
      [] d.t = "Omit" -> Omit_is_idle(d)
      [] d.t = "Collect" -> Collect_is_idle(d)
      [] d.t = "Length" -> Length_is_idle(d)
      [] d.t = "Take" -> Take_is_idle(d)
      [] d.t = "SkipRemaining" -> SkipRemaining_is_idle(d)
      [] d.t = "MaxBytes" -> MaxBytes_is_idle(d)

\* Decode::requiring_bytes_hint. The fixed-size primitive needs the bytes it
\* has not read yet; the rest-of-stream primitive cannot tell.
RECURSIVE requiring_bytes_hint(_)

Omit_requiring_bytes_hint(d) ==
    IF d.inner.some THEN requiring_bytes_hint(d.inner.v) ELSE Some(0)

requiring_bytes_hint(d) ==
    CASE d.t = "Fixed" -> Some(d.n - Len(d.acc))
      [] d.t = "Rest" -> None
      [] d.t = "AndThen" ->
             IF d.decoder1.some THEN requiring_bytes_hint(d.decoder1.v)
             ELSE requiring_bytes_hint(d.decoder0)
      [] d.t = "Omit" -> Omit_requiring_bytes_hint(d)
      [] d.t = "Collect" -> requiring_bytes_hint(d.decoder)
      [] d.t = "Length" ->
             IF has_terminated(d) THEN Some(0) ELSE Some(d.remaining_bytes)
      [] d.t = "Take" ->
             IF has_terminated(d) THEN Some(0)
             ELSE requiring_bytes_hint(d.decoder)
      [] d.t = "SkipRemaining" ->
             IF ~d.item.some THEN requiring_bytes_hint(d.decoder) ELSE None
      [] d.t = "MaxBytes" -> requiring_bytes_hint(d.codec)

\* ================================================================= encoders
\* An encoder is a record tree like a decoder. Encode(e, len, eos) is one call
\* of Encode::encode on a buffer of len bytes: the encoder after the call, the
\* bytes it put at the front of the buffer (out) and the result (the size
\* written, or an error). StartEncoding(e, item) is Encode::start_encoding.
OkSize(n) == [k |-> "ok", size |-> n]

EncRet(e, out, r) == [e |-> e, out |-> out, r |-> r]

\* The end-of-stream marker of encode: whether the buffer is the last one.
Eos_new(b) == b

Eos_is_eos(eos) == eos

\* The marker for an inner encoder when bytes are kept back behind its part.
Eos_back(eos, bytes) == eos /\ bytes = 0

\* Primitive: the bytes of the item, copied out as buffers allow
\* (Utf8Encoder; U8Encoder for a one-byte item).
BytesEncoder == [t |-> "Bytes", bytes |-> None, offset |-> 0]

RECURSIVE Encode(_, _, _), StartEncoding(_, _), enc_is_idle(_)

Bytes_encode(e, len, eos) ==
    IF ~e.bytes.some THEN EncRet(e, <<>>, OkSize(0))
    ELSE LET size == Min(len, Len(e.bytes.v) - e.offset)
             out == SubSeq(e.bytes.v, e.offset + 1, e.offset + size)
             offset == e.offset + size
         IN  IF offset = Len(e.bytes.v)
             THEN EncRet([e EXCEPT !.bytes = None, !.offset = 0], out,
                         OkSize(size))
             ELSE IF Eos_is_eos(eos)
             THEN EncRet([e EXCEPT !.offset = offset], out,
                         Err("UnexpectedEos"))
             ELSE EncRet([e EXCEPT !.offset = offset], out, OkSize(size))

Bytes_start_encoding(e, item) ==
    IF e.bytes.some THEN [e |-> e, r |-> Err("EncoderFull")]
    ELSE [e |-> [e EXCEPT !.bytes = Some(item), !.offset = 0], r |-> OkUnit]

Bytes_is_idle(e) == ~e.bytes.some

\* ------------------------------------------------------- MaxBytes (encoder)
MaxBytes_enc_is_idle(e) == enc_is_idle(e.codec)

\* Mutant: the counter holds the size of the last call only.
MaxBytes_encode_last_call(e, len, eos) ==
    LET limit == Min(len, max_remaining_bytes(e))
        x == Encode(e.codec, limit, Eos_back(eos, len - limit))
        e1 == [e EXCEPT !.codec = x.e]
        e2 == [e1 EXCEPT !.consumed_bytes = x.r.size]
    IN  IF x.r.k = "err" THEN EncRet(e1, x.out, x.r)
        ELSE IF e2.consumed_bytes = e.max_bytes /\ ~MaxBytes_enc_is_idle(e2)
        THEN EncRet(e2, x.out, Err("InvalidInput"))
        ELSE IF MaxBytes_enc_is_idle(e2)
        THEN EncRet([e2 EXCEPT !.consumed_bytes = 0], x.out, x.r)
        ELSE EncRet(e2, x.out, x.r)

MaxBytes_encode(e, len, eos) ==
    LET limit == Min(len, max_remaining_bytes(e))
        x == Encode(e.codec, limit, Eos_back(eos, len - limit))
        e1 == [e EXCEPT !.codec = x.e]
        e2 == [e1 EXCEPT !.consumed_bytes = e.consumed_bytes + x.r.size]
    IN  IF x.r.k = "err" THEN EncRet(e1, x.out, x.r)
        ELSE IF e2.consumed_bytes = e.max_bytes /\ ~MaxBytes_enc_is_idle(e2)
        THEN EncRet(e2, x.out, Err("InvalidInput"))
        ELSE IF MaxBytes_enc_is_idle(e2)
        THEN EncRet([e2 EXCEPT !.consumed_bytes = 0], x.out, x.r)
        ELSE EncRet(e2, x.out, x.r)

MaxBytes_start_encoding(e, item) ==
    LET x == StartEncoding(e.codec, item)
    IN  [e |-> [e EXCEPT !.codec = x.e], r |-> x.r]

\* --------------------------------------------------------- Length (encoder)
\* Mutant: the caller's marker is handed on at the frame edge.
Length_enc_window_unforced(e, len, eos) ==
    IF len < e.remaining_bytes
    THEN [limit |-> len, eos |-> eos]
    ELSE [limit |-> e.remaining_bytes, eos |-> eos]

\* The part of the buffer and the marker given to the inner encoder.
Length_enc_window(e, len, eos) ==
    IF len < e.remaining_bytes
    THEN [limit |-> len, eos |-> eos]
    ELSE [limit |-> e.remaining_bytes, eos |-> Eos_new(TRUE)]

Length_enc_is_idle(e) == e.remaining_bytes = 0

Length_encode(e, len, eos) ==
    IF len < e.remaining_bytes /\ Eos_is_eos(eos)
    THEN EncRet(e, <<>>, Err("UnexpectedEos"))
    ELSE LET w == Length_enc_window(e, len, eos)
             x == Encode(e.inner, w.limit, w.eos)
             e1 == [e EXCEPT !.inner = x.e]
             e2 == [e1 EXCEPT !.remaining_bytes = e.remaining_bytes - x.r.size]
         IN  IF x.r.k = "err" THEN EncRet(e1, x.out, x.r)
             ELSE IF enc_is_idle(e2.inner) /\ e2.remaining_bytes # 0
             THEN EncRet(e2, x.out, Err("InvalidInput"))
             ELSE EncRet(e2, x.out, x.r)

Length_start_encoding(e, item) ==
    IF e.remaining_bytes # e.expected_bytes
    THEN [e |-> e, r |-> Err("EncoderFull")]
    ELSE LET x == StartEncoding(e.inner, item)
         IN  [e |-> [e EXCEPT !.remaining_bytes = e.expected_bytes,
                              !.inner = x.e],
              r |-> x.r]

\* --------------------------------------------------------- Repeat (encoder)
\* The iterator given to start_encoding is the sequence of items not yet taken.
Repeat_new(encoder) == [t |-> "Repeat", encoder |-> encoder, items |-> None]

Repeat_is_idle(e) == ~e.items.some

\* Mutant: an item is taken from the iterator whether or not the inner
\* encoder is idle.
Repeat_take_always(e) == e.items.some /\ e.items.v # <<>>

\* The loop of Repeat::encode goes on: the inner encoder is idle.
Repeat_take(e) == enc_is_idle(e.encoder)

\* The while loop of Repeat::encode: r is Ok, or the error of start_encoding.
RECURSIVE Repeat_pull(_)
Repeat_pull(e) ==
    IF ~Repeat_take(e) THEN [e |-> e, r |-> OkUnit]
    ELSE IF e.items.some /\ e.items.v # <<>>
    THEN LET x == StartEncoding(e.encoder, Head(e.items.v))
             e1 == [e EXCEPT !.encoder = x.e,
                             !.items = Some(Tail(e.items.v))]
         IN  IF x.r.k = "err" THEN [e |-> e1, r |-> x.r]
             ELSE Repeat_pull(e1)
    ELSE [e |-> [e EXCEPT !.items = None], r |-> OkUnit]

Repeat_encode(e, len, eos) ==
    LET p == Repeat_pull(e)
        x == Encode(p.e.encoder, len, eos)
    IN  IF p.r.k = "err" THEN EncRet(p.e, <<>>, p.r)
        ELSE EncRet([p.e EXCEPT !.encoder = x.e], x.out, x.r)

Repeat_start_encoding(e, item) ==
    IF ~Repeat_is_idle(e) THEN [e |-> e, r |-> Err("EncoderFull")]
    ELSE [e |-> [e EXCEPT !.items = Some(item)], r |-> OkUnit]

\* -------------------------------------------------------- Padding (encoder)
Padding_new(encoder, padding_byte) ==
    [t |-> "Padding", encoder |-> encoder, padding_byte |-> padding_byte,
     eos_reached |-> TRUE]

Padding_is_idle(e) == e.eos_reached

\* Mutant: the length of the buffer is returned, its bytes left as they were.
Padding_encode_unfilled(e, len, eos) ==
    IF ~enc_is_idle(e.encoder)
    THEN LET x == Encode(e.encoder, len, eos)
         IN  EncRet([e EXCEPT !.encoder = x.e], x.out, x.r)
    ELSE EncRet([e EXCEPT !.eos_reached = Eos_is_eos(eos)],
                [i \in 1..len |-> 0], OkSize(len))

Padding_encode(e, len, eos) ==
    IF ~enc_is_idle(e.encoder)
    THEN LET x == Encode(e.encoder, len, eos)
         IN  EncRet([e EXCEPT !.encoder = x.e], x.out, x.r)
    ELSE EncRet([e EXCEPT !.eos_reached = Eos_is_eos(eos)],
                [i \in 1..len |-> e.padding_byte], OkSize(len))

\* Mutant: a new item is accepted while the last one is being padded.
Padding_start_encoding_unchecked(e, item) ==
    LET x == StartEncoding(e.encoder, item)
    IN  [e |-> [e EXCEPT !.eos_reached = FALSE, !.encoder = x.e], r |-> x.r]

Padding_start_encoding(e, item) ==
    IF ~Padding_is_idle(e) THEN [e |-> e, r |-> Err("EncoderFull")]
    ELSE LET x == StartEncoding(e.encoder, item)
         IN  [e |-> [e EXCEPT !.eos_reached = FALSE, !.encoder = x.e],
              r |-> x.r]

\* ----------------------------------------------------- WithPrefix (encoder)
WithPrefix_new(body_encoder, prefix_encoder, with_prefix) ==
    [t |-> "WithPrefix", body_encoder |-> body_encoder,
     prefix_encoder |-> prefix_encoder, with_prefix |-> with_prefix]

\* The prefix functions of this model, applied to the started body encoder:
\* "len" is the number of bytes the body still has to write, as one byte;
\* "magic" is a fixed two-byte marker.
with_prefix_apply(f, body) ==
    IF f = "len" THEN <<Len(body.bytes.v) - body.offset>> ELSE <<7, 8>>

WithPrefix_is_idle(e) ==
    enc_is_idle(e.prefix_encoder) /\ enc_is_idle(e.body_encoder)

\* Mutant: the body is written first.
WithPrefix_encode_body_first(e, len, eos) ==
    IF enc_is_idle(e.body_encoder)
    THEN LET x == Encode(e.prefix_encoder, len, eos)
         IN  EncRet([e EXCEPT !.prefix_encoder = x.e], x.out, x.r)
    ELSE LET x == Encode(e.body_encoder, len, eos)
         IN  EncRet([e EXCEPT !.body_encoder = x.e], x.out, x.r)

WithPrefix_encode(e, len, eos) ==
    IF ~enc_is_idle(e.prefix_encoder)
    THEN LET x == Encode(e.prefix_encoder, len, eos)
         IN  EncRet([e EXCEPT !.prefix_encoder = x.e], x.out, x.r)
    ELSE LET x == Encode(e.body_encoder, len, eos)
         IN  EncRet([e EXCEPT !.body_encoder = x.e], x.out, x.r)

WithPrefix_start_encoding(e, item) ==
    IF ~WithPrefix_is_idle(e) THEN [e |-> e, r |-> Err("EncoderFull")]
    ELSE LET b == StartEncoding(e.body_encoder, item)
             e1 == [e EXCEPT !.body_encoder = b.e]
             prefix_item == with_prefix_apply(e.with_prefix, b.e)
             q == StartEncoding(e.prefix_encoder, prefix_item)
         IN  IF b.r.k = "err" THEN [e |-> e1, r |-> b.r]
             ELSE [e |-> [e1 EXCEPT !.prefix_encoder = q.e], r |-> q.r]

\* ------------------------------------------------------- dispatch (encoder)
\* ----------------------------------------------------------------- Optional
Optional_new(encoder) == [t |-> "Optional", inner |-> encoder]

Optional_encode(e, len, eos) ==
    LET x == Encode(e.inner, len, eos)
    IN  EncRet([e EXCEPT !.inner = x.e], x.out, x.r)

\* Mutant: an absent item is refused.
Optional_start_encoding_refusing(e, item) ==
    IF item.some
    THEN LET x == StartEncoding(e.inner, item.v)
         IN  [e |-> [e EXCEPT !.inner = x.e], r |-> x.r]
    ELSE [e |-> e, r |-> Err("InvalidInput")]

Optional_start_encoding(e, item) ==
    IF item.some
    THEN LET x == StartEncoding(e.inner, item.v)
         IN  [e |-> [e EXCEPT !.inner = x.e], r |-> x.r]
    ELSE [e |-> e, r |-> OkUnit]

Optional_is_idle(e) == enc_is_idle(e.inner)

Encode(e, len, eos) ==
    CASE e.t = "Bytes" -> Bytes_encode(e, len, eos)
      [] e.t = "MaxBytes" -> MaxBytes_encode(e, len, eos)
      [] e.t = "Length" -> Length_encode(e, len, eos)
      [] e.t = "Repeat" -> Repeat_encode(e, len, eos)
      [] e.t = "Padding" -> Padding_encode(e, len, eos)
      [] e.t = "WithPrefix" -> WithPrefix_encode(e, len, eos)
      [] e.t = "Optional" -> Optional_encode(e, len, eos)

StartEncoding(e, item) ==
    CASE e.t = "Bytes" -> Bytes_start_encoding(e, item)
      [] e.t = "MaxBytes" -> MaxBytes_start_encoding(e, item)
      [] e.t = "Length" -> Length_start_encoding(e, item)
      [] e.t = "Repeat" -> Repeat_start_encoding(e, item)
      [] e.t = "Padding" -> Padding_start_encoding(e, item)
      [] e.t = "WithPrefix" -> WithPrefix_start_encoding(e, item)
      [] e.t = "Optional" -> Optional_start_encoding(e, item)

enc_is_idle(e) ==
    CASE e.t = "Bytes" -> Bytes_is_idle(e)
      [] e.t = "MaxBytes" -> MaxBytes_enc_is_idle(e)
      [] e.t = "Length" -> Length_enc_is_idle(e)
      [] e.t = "Repeat" -> Repeat_is_idle(e)
      [] e.t = "Padding" -> Padding_is_idle(e)
      [] e.t = "WithPrefix" -> WithPrefix_is_idle(e)
      [] e.t = "Optional" -> Optional_is_idle(e)

\* ================================================================ ByteCount
Finite(n) == [t |-> "Finite", n |-> n]

Infinite == [t |-> "Infinite"]

Unknown == [t |-> "Unknown"]

\* u64::cmp
cmp(l, r) == IF l < r THEN "Less" ELSE IF l = r THEN "Equal" ELSE "Greater"

\* Ordering::reverse under Option::map
reverse(o) ==
    IF ~o.some THEN None
    ELSE Some(CASE o.v = "Less" -> "Greater"
                [] o.v = "Equal" -> "Equal"
                [] o.v = "Greater" -> "Less")

\* Mutant: the arms for Infinite are tried before the arm for Unknown.
partial_cmp_infinite_first(self, other) ==
    IF self.t = "Finite" /\ other.t = "Finite"
    THEN Some(cmp(self.n, other.n))
    ELSE IF self.t = "Infinite" /\ other.t = "Infinite" THEN Some("Equal")
    ELSE IF self.t = "Infinite" THEN Some("Greater")
    ELSE IF other.t = "Infinite" THEN Some("Less")
    ELSE None

\* The match of ByteCount::partial_cmp, arm by arm.
partial_cmp(self, other) ==
    IF self.t = "Finite" /\ other.t = "Finite"
    THEN Some(cmp(self.n, other.n))
    ELSE IF self.t = "Unknown" \/ other.t = "Unknown" THEN None
    ELSE IF self.t = "Infinite" /\ other.t = "Infinite" THEN Some("Equal")
    ELSE IF self.t = "Infinite" THEN Some("Greater")
    ELSE Some("Less")

\* ============================================== DecodeBuf with its cursor
\* The struct itself: the window, the offset into it and the hint. usize
\* arithmetic is modular; a build with overflow checks panics instead.
DecodeBuf_eos == [buf |-> <<>>, offset |-> 0, remaining_bytes |-> Some(0)]

DecodeBuf_new(buf) == [buf |-> buf, offset |-> 0, remaining_bytes |-> None]

DecodeBuf_with_remaining_bytes(buf, remaining_bytes) ==
    [buf |-> buf, offset |-> 0, remaining_bytes |-> Some(remaining_bytes)]

\* self.remaining_bytes().map_or(false, |n| n == 0)
DecodeBuf_is_eos(b) ==
    IF b.remaining_bytes.some THEN b.remaining_bytes.v = 0 ELSE FALSE

\* &self.buf[self.offset..]
DecodeBuf_as_ref(b) == SubSeq(b.buf, b.offset + 1, Len(b.buf))

\* self.offset + size on usize: the sum modulo 2^w, or a panic when the build
\* checks overflow.
usize_add(a, b, checks) ==
    IF a + b >= 2 ^ UsizeBits /\ checks THEN [panic |-> TRUE]
    ELSE [panic |-> FALSE, v |-> (a + b) % (2 ^ UsizeBits)]

DecodeBuf_consume(b, size, checks) ==
    LET sum == usize_add(b.offset, size, checks)
    IN  IF sum.panic THEN [b |-> b, r |-> [k |-> "panic"]]
        ELSE IF ~(sum.v <= Len(b.buf))
        THEN [b |-> b, r |-> Err("InvalidInput")]
        ELSE [b |-> [b EXCEPT !.offset = sum.v], r |-> OkUnit]

\* Read::read into a destination of len bytes.
DecodeBuf_read(b, len) ==
    LET size == Min(Len(DecodeBuf_as_ref(b)), len)
    IN  [b |-> [b EXCEPT !.offset = b.offset + size],
         data |-> Prefix(DecodeBuf_as_ref(b), size),
         r |-> [k |-> "ok", size |-> size]]

\* ------------------------------------------------------------------- state
VARIABLES
    dec0,      \* the decoder as constructed
    dec,       \* the decoder instance
    stream,    \* the whole input byte sequence
    pos,       \* bytes of stream consumed so far
    mark,      \* pos when the last item was yielded (0 before the first)
    items,     \* the items yielded so far, in order
    calls,     \* decode calls made
    failed,    \* some decode call has returned an error
    unhinted,  \* every window so far had an unknown remaining-bytes hint
    termSeen,  \* has_terminated() has been true after construction or a call
    wholeEos,  \* every call so far offered the rest of the stream, hint Some(0)
    last       \* the last decode call: window, hint, bytes consumed (n), result,
               \* buffer left, decoder before (pre), bytes consumed before it
               \* since the last item (pend)

VARIABLES
    enc0,      \* the encoder as constructed
    enc,       \* the encoder instance
    cur,       \* the item given by the last successful start_encoding
    written,   \* the bytes put into buffers since that start_encoding
    ops,       \* start_encoding and encode calls made
    efailed,   \* some encode call has returned an error
    elast      \* the last call: op, buffer length, eos, result, encoder before

encVars == <<enc0, enc, cur, written, ops, efailed, elast>>

decVars == <<dec0, dec, stream, pos, mark, items, calls, failed, unhinted,
             termSeen, wholeEos, last>>

VARIABLES
    bcSelf,    \* the left operand of a comparison of ByteCounts
    bcOther,   \* the right operand
    bcOrd      \* the result of partial_cmp, once it has been called

VARIABLES
    overflow_checks,  \* the build panics on integer overflow (else it wraps)
    dbuf,      \* a DecodeBuf handled directly by a caller
    dops,      \* consume and read calls made on it
    dlast      \* the last call on it: op, argument, result, buffer before

cmpVars == <<bcSelf, bcOther, bcOrd>>

bufVars == <<overflow_checks, dbuf, dops, dlast>>

auxVars == <<bcSelf, bcOther, bcOrd, overflow_checks, dbuf, dops, dlast>>

vars == <<dec0, dec, stream, pos, mark, items, calls, failed, unhinted,
          termSeen, wholeEos, last, enc0, enc, cur, written, ops, efailed,
          elast, bcSelf, bcOther, bcOrd, overflow_checks, dbuf, dops, dlast>>

\* No comparison under way.
CmpIdle == bcSelf = Unknown /\ bcOther = Unknown /\ bcOrd = [done |-> FALSE]

\* No DecodeBuf handled directly.
BufIdle ==
    /\ overflow_checks = TRUE
    /\ dbuf = DecodeBuf_eos
    /\ dops = 0
    /\ dlast = [op |-> "new"]

AuxIdle == CmpIdle /\ BufIdle

\* ------------------------------------------------------------ configurations
F1 == FixedDecoder(1)

F2 == FixedDecoder(2)

F3 == FixedDecoder(3)

TakeConfigs ==
    {Take_new(F1, k) : k \in 0..2}
    \cup {Take_new(F2, 1), Take_new(Length_new(RestDecoder, 2), 1),
          Take_new(AndThen_new(F1, "fixed"), 1)}

LengthConfigs ==
    {Length_new(RestDecoder, n) : n \in 1..3}
    \cup {Length_new(F1, 2), Length_new(F2, 2), Length_new(F2, 1),
          Length_new(Take_new(F2, 1), 2), Length_new(Collect_new(F1), 2),
          Length_new(AndThen_new(F1, "fixed"), 3),
          Length_new(SkipRemaining_new(F1), 2)}

AndThenConfigs ==
    {AndThen_new(F1, "fixed"), AndThen_new(F1, "length"),
     AndThen_new(F2, "fixed"), AndThen_new(Take_new(F1, 1), "fixed"),
     AndThen_new(Length_new(RestDecoder, 1), "length")}

CollectConfigs ==
    {Collect_new(Take_new(F1, k)) : k \in 0..2}
    \cup {Collect_new(F1), Collect_new(F2),
          Collect_new(Length_new(RestDecoder, 2)),
          Collect_new(AndThen_new(F1, "fixed")),
          Collect_new(SkipRemaining_new(F1))}

SkipRemainingConfigs ==
    {SkipRemaining_new(F1), SkipRemaining_new(F2),
     SkipRemaining_new(Take_new(F1, 1)),
     SkipRemaining_new(Length_new(RestDecoder, 2))}

MaxBytesConfigs ==
    {MaxBytes_new(F2, m) : m \in 1..3}
    \cup {MaxBytes_new(F3, 2), MaxBytes_new(F1, 1),
          MaxBytes_new(Length_new(RestDecoder, 2), 2)}

OmitConfigs ==
    {Omit_new(F1, TRUE), Omit_new(F1, FALSE), Omit_new(Take_new(F1, 1), FALSE)}

Configs ==
    TakeConfigs \cup LengthConfigs \cup AndThenConfigs \cup CollectConfigs
    \cup SkipRemainingConfigs \cup MaxBytesConfigs \cup OmitConfigs

Streams == UNION {[1..n -> Bytes] : n \in 0..MaxLen}

\* The input of test::decoder_length_works, "foobarba", as eight bytes.
Foobarba == <<0, 1, 1, 1, 0, 0, 1, 0>>

\* --------------------------------------------------------------------- Init
Init ==
    /\ \/ dec0 \in Configs /\ stream \in Streams
       \/ dec0 = Length_new(RestDecoder, 3) /\ stream = Foobarba
    /\ dec = dec0
    /\ pos = 0
    /\ mark = 0
    /\ items = <<>>
    /\ calls = 0
    /\ failed = FALSE
    /\ unhinted = TRUE
    /\ termSeen = has_terminated(dec0)
    /\ wholeEos = TRUE
    /\ last = [op |-> "new"]
    /\ enc0 = BytesEncoder
    /\ enc = BytesEncoder
    /\ cur = None
    /\ written = <<>>
    /\ ops = 0
    /\ efailed = FALSE
    /\ elast = [op |-> "new"]
    /\ AuxIdle

\* One call of dec.decode(&mut DecodeBuf) on the next w bytes of the stream,
\* with the hint rem.
Call(w, rem) ==
    LET win == SubSeq(stream, pos + 1, pos + w)
        x == Decode(dec, DecodeBuf(win, rem))
        n == w - Len(x.buf.bytes)
    IN  /\ calls < MaxCalls
        /\ dec' = x.d
        /\ pos' = pos + n
        /\ mark' = IF x.r.k = "some" THEN pos + n ELSE mark
        /\ items' = IF x.r.k = "some" THEN Append(items, x.r.v) ELSE items
        /\ calls' = calls + 1
        /\ failed' = (failed \/ x.r.k \in {"err", "diverge"})
        /\ unhinted' = (unhinted /\ ~rem.some)
        /\ termSeen' = (termSeen \/ has_terminated(x.d))
        /\ wholeEos' = (wholeEos /\ rem = Some(0))
        /\ last' = [op |-> "decode", pre |-> dec, win |-> win, rem |-> rem,
                    n |-> n, r |-> x.r, left |-> x.buf, pend |-> pos - mark,
                    termBefore |-> termSeen, failedBefore |-> failed]
        /\ UNCHANGED <<dec0, stream>>
        /\ UNCHANGED encVars
        /\ UNCHANGED auxVars

\* decode on DecodeBuf::new(window): the remaining-bytes hint is unknown.
DecodeWindow == \E w \in 0..(Len(stream) - pos) : Call(w, None)

\* decode on DecodeBuf::with_remaining_bytes(window, r), r the bytes of the
\* stream that follow the window.
DecodeHinted ==
    \E w \in 0..(Len(stream) - pos) : Call(w, Some(Len(stream) - pos - w))

Next == DecodeWindow \/ DecodeHinted

Spec == Init /\ [][Next]_vars

\* ------------------------------------------- runs of a Length decoder
\* The Length decoders whose length is changed between frames.
SetLengthConfigs ==
    {Length_new(RestDecoder, 2), Length_new(RestDecoder, 3),
     Length_new(F1, 2), Length_new(F2, 2)}

InitLength == Init /\ dec0 \in SetLengthConfigs

\* dec.set_expected_bytes(bytes)
SetExpectedBytes ==
    \E bytes \in 1..3 :
        LET x == Length_set_expected_bytes(dec, bytes)
        IN  /\ calls < MaxCalls
            /\ dec' = x.e
            /\ calls' = calls + 1
            /\ last' = [op |-> "set", pre |-> dec, bytes |-> bytes, r |-> x.r,
                        consumed |-> pos - mark, failedBefore |-> failed]
            /\ UNCHANGED <<dec0, stream, pos, mark, items, failed, unhinted,
                           termSeen, wholeEos>>
            /\ UNCHANGED encVars
            /\ UNCHANGED auxVars

NextLength == DecodeWindow \/ DecodeHinted \/ SetExpectedBytes

SpecLength == InitLength /\ [][NextLength]_vars


\* ------------------------------------------------------------ encoder runs
\* The item of test::encoder_max_bytes_works that exceeds the limit, "hello",
\* as five bytes.
Hello == <<0, 1, 1, 1, 0>>

EncItems == Streams \cup {Hello}

MaxBytesEncConfigs == {MaxBytes_new(BytesEncoder, m) : m \in 0..3}

EncConfigs == MaxBytesEncConfigs

InitEncOf(configs) ==
    /\ enc0 \in configs
    /\ enc = enc0
    /\ cur = None
    /\ written = <<>>
    /\ ops = 0
    /\ efailed = FALSE
    /\ elast = [op |-> "new"]
    /\ dec0 = F1
    /\ dec = F1
    /\ stream = <<>>
    /\ pos = 0
    /\ mark = 0
    /\ items = <<>>
    /\ calls = 0
    /\ failed = FALSE
    /\ unhinted = TRUE
    /\ termSeen = FALSE
    /\ wholeEos = TRUE
    /\ last = [op |-> "new"]
    /\ AuxIdle

InitEnc == InitEncOf(EncConfigs)

\* The items of a Repeat encoder are iterators: finite sequences of items of
\* the inner encoder.
RepeatElems == {<<>>, <<0>>, <<1, 0>>}

RepeatItems == UNION {[1..n -> RepeatElems] : n \in 0..2}

\* The items given to the Padding and WithPrefix encoders.
CombItems == {<<>>, <<1>>, <<1, 0>>, <<0, 1, 1>>}

\* The items of an Optional encoder: nothing, or an item of the inner encoder.
OptionalItems == {None} \cup {Some(item) : item \in CombItems}

ItemsFor(e) ==
    IF e.t = "Repeat" THEN RepeatItems
    ELSE IF e.t = "Optional" THEN OptionalItems
    ELSE IF e.t \in {"Padding", "WithPrefix"} THEN CombItems
    ELSE IF e.t = "Length" /\ e.inner.t = "Padding" THEN CombItems
    ELSE EncItems

\* enc.start_encoding(item), the item drawn from the given set
EncStartOf(choices) ==
    \E item \in choices :
        LET x == StartEncoding(enc, item)
        IN  /\ ops < MaxOps
            /\ enc' = x.e
            /\ cur' = IF x.r.k = "ok" THEN Some(item) ELSE cur
            /\ written' = IF x.r.k = "ok" THEN <<>> ELSE written
            /\ ops' = ops + 1
            /\ elast' = [op |-> "start", item |-> item, r |-> x.r,
                         pre |-> enc, failedBefore |-> efailed]
            /\ UNCHANGED <<enc0, efailed>>
            /\ UNCHANGED decVars
            /\ UNCHANGED auxVars

\* enc.start_encoding(item)
EncStart == EncStartOf(ItemsFor(enc0))

\* enc.encode(&mut buf, eos) on a buffer of len bytes
EncEncode ==
    \E len \in 0..MaxBuf, eos \in BOOLEAN :
        LET x == Encode(enc, len, Eos_new(eos))
        IN  /\ ops < MaxOps
            /\ enc' = x.e
            /\ written' = written \o x.out
            /\ ops' = ops + 1
            /\ efailed' = (efailed \/ x.r.k = "err")
            /\ elast' = [op |-> "encode", len |-> len, eos |-> eos,
                         r |-> x.r, out |-> x.out, pre |-> enc,
                         failedBefore |-> efailed]
            /\ UNCHANGED <<enc0, cur>>
            /\ UNCHANGED decVars
            /\ UNCHANGED auxVars

NextEnc == EncStart \/ EncEncode

SpecEnc == InitEnc /\ [][NextEnc]_vars

\* Runs of a Length encoder over the primitive encoder.
LengthEncConfigs == {Length_new(BytesEncoder, n) : n \in 0..3}

InitEncLength == InitEncOf(LengthEncConfigs)

SpecEncLength == InitEncLength /\ [][NextEnc]_vars

\* Runs of the Repeat, Padding and WithPrefix encoders over the primitive
\* encoder, and of Padding inside a Length frame.
RepeatEncConfigs == {Repeat_new(BytesEncoder)}

PaddingEncConfigs == {Padding_new(BytesEncoder, 9)}

PaddingFrameConfigs == {Length_new(Padding_new(BytesEncoder, 9), n) : n \in 2..3}

WithPrefixEncConfigs ==
    {WithPrefix_new(BytesEncoder, BytesEncoder, f) : f \in {"len", "magic"}}

CombEncConfigs ==
    RepeatEncConfigs \cup PaddingEncConfigs \cup PaddingFrameConfigs
    \cup WithPrefixEncConfigs

InitEncComb == InitEncOf(CombEncConfigs)

SpecEncComb == InitEncComb /\ [][NextEnc]_vars

\* ------------------------------------ runs of Repeat over a Length encoder
RepeatLengthConfigs == {Repeat_new(Length_new(BytesEncoder, n)) : n \in 1..2}

InitEncRepeatLength == InitEncOf(RepeatLengthConfigs)

SpecEncRepeatLength == InitEncRepeatLength /\ [][NextEnc]_vars

\* ------------------------------------------------- runs of Optional encoders
OptionalEncConfigs ==
    {Optional_new(BytesEncoder), Optional_new(MaxBytes_new(BytesEncoder, 2)),
     Optional_new(Length_new(BytesEncoder, 2))}

SpecEncOptional == InitEncOf(OptionalEncConfigs) /\ [][NextEnc]_vars

\* ------------------------------------------------------- round trip (Length)
\* A Length(n) encoder writes an item; the bytes it produced are then the
\* input of a Length(n) decoder over the matching inner decoder.
InitRoundTrip ==
    /\ \E n \in 0..3 :
           /\ enc0 = Length_new(BytesEncoder, n)
           /\ dec0 = Length_new(RestDecoder, n)
    /\ enc = enc0
    /\ cur = None
    /\ written = <<>>
    /\ ops = 0
    /\ efailed = FALSE
    /\ elast = [op |-> "new"]
    /\ dec = dec0
    /\ stream = <<>>
    /\ pos = 0
    /\ mark = 0
    /\ items = <<>>
    /\ calls = 0
    /\ failed = FALSE
    /\ unhinted = TRUE
    /\ termSeen = has_terminated(dec0)
    /\ wholeEos = TRUE
    /\ last = [op |-> "new"]
    /\ AuxIdle

\* The encoder's calls, made before its output is handed over; a failed
\* encoding is abandoned.
RtEncode == last.op = "new" /\ ~efailed /\ (EncStart \/ EncEncode)

\* The output of the encoder, once the frame is full and the inner encoder
\* has written the whole item, becomes the decoder's input.
RtFeed ==
    /\ last.op = "new"
    /\ cur.some
    /\ ~efailed
    /\ enc_is_idle(enc)
    /\ enc_is_idle(enc.inner)
    /\ stream' = written
    /\ last' = [op |-> "feed"]
    /\ elast' = [op |-> "feed"]
    /\ UNCHANGED <<dec0, dec, pos, mark, items, calls, failed, unhinted,
                   termSeen, wholeEos>>
    /\ UNCHANGED <<enc0, enc, cur, written, ops, efailed>>
    /\ UNCHANGED auxVars

\* The decoder's calls on windows of the bytes handed over.
RtDecode == last.op # "new" /\ (DecodeWindow \/ DecodeHinted)

NextRoundTrip == RtEncode \/ RtFeed \/ RtDecode

SpecRoundTrip == InitRoundTrip /\ [][NextRoundTrip]_vars

\* enc.set_expected_bytes(bytes) on a Length encoder
EncSetExpectedBytes ==
    \E bytes \in 0..3 :
        LET x == Length_set_expected_bytes(enc, bytes)
        IN  /\ ops < MaxOps
            /\ enc' = x.e
            /\ ops' = ops + 1
            /\ elast' = [op |-> "set", bytes |-> bytes, r |-> x.r, pre |-> enc,
                         failedBefore |-> efailed]
            /\ UNCHANGED <<enc0, cur, written, efailed>>
            /\ UNCHANGED decVars
            /\ UNCHANGED auxVars

NextEncSet == EncStart \/ EncEncode \/ EncSetExpectedBytes

SpecEncSet == InitEncLength /\ [][NextEncSet]_vars

\* ------------------------------------------ runs of Collect over Omit
\* Collect over an Omit that omits, over one that does not, and over the
\* inner decoder alone.
InitCollectOmit ==
    /\ dec0 \in {Collect_new(Omit_new(F1, TRUE)),
                 Collect_new(Omit_new(F1, FALSE)),
                 Collect_new(Take_new(Omit_new(F1, TRUE), 2)),
                 Collect_new(F1)}
    /\ stream \in Streams
    /\ dec = dec0
    /\ pos = 0
    /\ mark = 0
    /\ items = <<>>
    /\ calls = 0
    /\ failed = FALSE
    /\ unhinted = TRUE
    /\ termSeen = has_terminated(dec0)
    /\ wholeEos = TRUE
    /\ last = [op |-> "new"]
    /\ enc0 = BytesEncoder
    /\ enc = BytesEncoder
    /\ cur = None
    /\ written = <<>>
    /\ ops = 0
    /\ efailed = FALSE
    /\ elast = [op |-> "new"]
    /\ AuxIdle

SpecCollectOmit == InitCollectOmit /\ [][Next]_vars

\* ------------------------------- runs of a Length decoder or a Length encoder
\* dec.inner_mut().decode(&mut DecodeBuf) on the next w bytes of the stream;
\* the item, if any, goes to the caller and not to the Length decoder.
DecInnerMut ==
    \E w \in 0..(Len(stream) - pos), hinted \in BOOLEAN :
        LET win == SubSeq(stream, pos + 1, pos + w)
            rem == IF hinted THEN Some(Len(stream) - pos - w) ELSE None
            x == Decode(dec.inner, DecodeBuf(win, rem))
            n == w - Len(x.buf.bytes)
        IN  /\ calls < MaxCalls
            /\ dec' = [dec EXCEPT !.inner = x.d]
            /\ pos' = pos + n
            /\ calls' = calls + 1
            /\ failed' = (failed \/ x.r.k \in {"err", "diverge"})
            /\ termSeen' = (termSeen \/ has_terminated(dec'))
            /\ last' = [op |-> "inner_mut", pre |-> dec, win |-> win,
                        rem |-> rem, n |-> n, r |-> x.r, left |-> x.buf,
                        failedBefore |-> failed]
            /\ UNCHANGED <<dec0, stream, mark, items, unhinted, wholeEos>>
            /\ UNCHANGED encVars
            /\ UNCHANGED auxVars

\* enc.inner_mut().start_encoding(item) and enc.inner_mut().encode(&mut buf,
\* eos) on a buffer of len bytes.
EncInnerMut ==
    \/ \E item \in CombItems :
           LET x == StartEncoding(enc.inner, item)
           IN  /\ ops < MaxOps
               /\ enc' = [enc EXCEPT !.inner = x.e]
               /\ ops' = ops + 1
               /\ elast' = [op |-> "inner_mut", call |-> "start",
                            item |-> item, r |-> x.r, pre |-> enc,
                            failedBefore |-> efailed]
               /\ UNCHANGED <<enc0, cur, written, efailed>>
               /\ UNCHANGED decVars
               /\ UNCHANGED auxVars
    \/ \E len \in 0..MaxBuf, eos \in BOOLEAN :
           LET x == Encode(enc.inner, len, Eos_new(eos))
           IN  /\ ops < MaxOps
               /\ enc' = [enc EXCEPT !.inner = x.e]
               /\ written' = written \o x.out
               /\ ops' = ops + 1
               /\ efailed' = (efailed \/ x.r.k = "err")
               /\ elast' = [op |-> "inner_mut", call |-> "encode",
                            len |-> len, eos |-> eos, r |-> x.r,
                            out |-> x.out, pre |-> enc,
                            failedBefore |-> efailed]
               /\ UNCHANGED <<enc0, cur>>
               /\ UNCHANGED decVars
               /\ UNCHANGED auxVars

\* Either a Length decoder or a Length encoder, with every call it has:
\* its own, and those a caller makes on the inner codec through inner_mut().
InitCounters ==
    \/ Init /\ dec0 \in {Length_new(RestDecoder, 2), Length_new(F2, 2)}
    \/ InitEncOf({Length_new(BytesEncoder, 2)})

\* Runs of either kind are MaxCalls calls long.
NextCounters ==
    \/ dec0.t = "Length" /\ (NextLength \/ DecInnerMut)
    \/ enc0.t = "Length" /\ ops < MaxCalls
          /\ (\/ EncStartOf(CombItems)
              \/ EncEncode
              \/ EncSetExpectedBytes
              \/ EncInnerMut)

SpecCounters == InitCounters /\ [][NextCounters]_vars

\* ------------------------------------------------- comparisons of ByteCounts
ByteCounts == {Finite(n) : n \in 0..MaxCount} \cup {Infinite, Unknown}

\* The codec state that plays no part in the runs below.
CodecIdle ==
    /\ dec0 = F1
    /\ dec = F1
    /\ stream = <<>>
    /\ pos = 0
    /\ mark = 0
    /\ items = <<>>
    /\ calls = 0
    /\ failed = FALSE
    /\ unhinted = TRUE
    /\ termSeen = FALSE
    /\ wholeEos = TRUE
    /\ last = [op |-> "new"]
    /\ enc0 = BytesEncoder
    /\ enc = BytesEncoder
    /\ cur = None
    /\ written = <<>>
    /\ ops = 0
    /\ efailed = FALSE
    /\ elast = [op |-> "new"]

InitByteCount ==
    /\ bcSelf \in ByteCounts
    /\ bcOther \in ByteCounts
    /\ bcOrd = [done |-> FALSE]
    /\ BufIdle
    /\ CodecIdle

\* bcSelf.partial_cmp(&bcOther)
PartialCmp ==
    /\ ~bcOrd.done
    /\ bcOrd' = [done |-> TRUE, v |-> partial_cmp(bcSelf, bcOther)]
    /\ UNCHANGED <<bcSelf, bcOther>>
    /\ UNCHANGED bufVars
    /\ UNCHANGED decVars
    /\ UNCHANGED encVars

SpecByteCount == InitByteCount /\ [][PartialCmp]_vars

\* ------------------------------------------------ a DecodeBuf and its caller
\* The windows and hints a DecodeBuf is built with.
DecodeBufs ==
    {DecodeBuf_eos}
    \cup {DecodeBuf_new(buf) : buf \in Streams}
    \cup {DecodeBuf_with_remaining_bytes(buf, n) : buf \in Streams, n \in 0..1}

InitDecodeBuf ==
    /\ overflow_checks \in BOOLEAN
    /\ dbuf \in DecodeBufs
    /\ dops = 0
    /\ dlast = [op |-> "new"]
    /\ CmpIdle
    /\ CodecIdle

\* dbuf.consume(size), with sizes around the window length and the largest
\* values of usize; a panic ends the run.
BufConsume ==
    \E size \in 0..(MaxLen + 1) \cup {2 ^ UsizeBits - 2, 2 ^ UsizeBits - 1} :
        LET x == DecodeBuf_consume(dbuf, size, overflow_checks)
        IN  /\ dops < MaxOps
            /\ dlast.op = "consume" => dlast.r.k # "panic"
            /\ dbuf' = x.b
            /\ dops' = dops + 1
            /\ dlast' = [op |-> "consume", size |-> size, r |-> x.r,
                         pre |-> dbuf]
            /\ UNCHANGED overflow_checks
            /\ UNCHANGED cmpVars
            /\ UNCHANGED decVars
            /\ UNCHANGED encVars

\* dbuf.read(&mut dest) with a destination of len bytes
BufRead ==
    \E len \in 0..MaxBuf :
        LET x == DecodeBuf_read(dbuf, len)
        IN  /\ dops < MaxOps
            /\ dlast.op = "consume" => dlast.r.k # "panic"
            /\ dbuf' = x.b
            /\ dops' = dops + 1
            /\ dlast' = [op |-> "read", len |-> len, r |-> x.r,
                         data |-> x.data, pre |-> dbuf]
            /\ UNCHANGED overflow_checks
            /\ UNCHANGED cmpVars
            /\ UNCHANGED decVars
            /\ UNCHANGED encVars

SpecDecodeBuf == InitDecodeBuf /\ [][BufConsume \/ BufRead]_vars

\* ====================================================================== C1
\* Decoding the whole stream as one window with an unknown hint, re-offering
\* the unconsumed bytes after each item, until the decoder suspends or fails.
RECURSIVE WholeRun(_, _, _, _)
WholeRun(d, bytes, acc, fuel) ==
    LET x == Decode(d, DecodeBuf(bytes, None))
    IN  IF x.r.k = "some" /\ fuel > 0
        THEN WholeRun(x.d, x.buf.bytes, Append(acc, x.r.v), fuel - 1)
        ELSE [items |-> acc, r |-> x.r, left |-> x.buf.bytes]

WholeItems == WholeRun(dec0, stream, <<>>, Len(stream) + 1)

ChunkScope ==
    /\ dec0 \in TakeConfigs \cup LengthConfigs \cup AndThenConfigs
    /\ unhinted
    /\ last.op = "decode"
    /\ ~last.failedBefore

\* C1: chunk-boundary invariance of Length, AndThen and Take. With unknown
\* hints, whatever the split of the stream into windows, the items yielded so
\* far are a prefix of the items of the single-window run, and once the
\* chunked run has failed or has consumed the whole stream and suspended, its
\* items are exactly those of the single-window run, which ends the same way.
C1_ChunkInvariance ==
    ChunkScope =>
        /\ IsPrefix(items, WholeItems.items)
        /\ last.r.k = "err" => (items = WholeItems.items /\ WholeItems.r = last.r)
        /\ (last.r.k = "none" /\ pos = Len(stream)) =>
               (items = WholeItems.items /\ WholeItems.r.k = "none")

\* An item was completed by a call that consumed only part of its bytes: the
\* item spans several windows.
C1_Witness ==
    /\ ChunkScope
    /\ last.r.k = "some"
    /\ last.n > 0
    /\ Len(last.r.v) > last.n


\* ====================================================================== C2
SuspendScope ==
    /\ dec0.t \in {"Length", "MaxBytes", "Take", "AndThen", "SkipRemaining",
                   "Collect"}
    /\ last.op = "decode"
    /\ ~last.failedBefore

\* C2: full consumption on suspension. Whenever a decode call of Length,
\* MaxBytes, Take, AndThen, SkipRemaining or Collect returns Ok(None) and the
\* decoder has not terminated, no offered byte is left in the buffer.
C2_FullConsumption ==
    (SuspendScope /\ last.r.k = "none" /\ ~has_terminated(dec)) =>
        last.left.bytes = <<>>


\* ====================================================================== C3
\* The inner decoder's part of the last Length::decode call, replayed on the
\* view Length gave it.
LengthView ==
    with_limit_and_remaining_bytes(
        DecodeBuf(last.win, last.rem),
        Min(Len(last.win), last.pre.remaining_bytes),
        last.pre.remaining_bytes - Min(Len(last.win), last.pre.remaining_bytes))

LengthInner == Decode(last.pre.inner, LengthView)

\* The inner decoder returned an item while the frame still misses bytes.
ShortItem ==
    /\ dec0.t = "Length"
    /\ last.op = "decode"
    /\ ~(last.rem.some /\ Len(last.win) + last.rem.v < last.pre.remaining_bytes)
    /\ LengthInner.r.k = "some"
    /\ last.pre.remaining_bytes
           - (Len(LengthView.bytes) - Len(LengthInner.buf.bytes)) > 0

\* C3 as stated: a short item makes Length::decode fail with InvalidInput.
C3_ShortItemInvalidInput == ShortItem => last.r = Err("InvalidInput")

\* C3 amended: when the inner decoder of Length(n) returns an item before the
\* frame has had n bytes consumed, Length::decode fails with ErrorKind::Other
\* and does not return the item.
C3_ShortItemOther == ShortItem => last.r = Err("Other")

C3_Witness == ShortItem /\ last.n > 0 /\ calls > 1

\* ====================================================================== C4
\* The hint says the stream ends before the current frame is complete.
PrematureEnd ==
    /\ dec0.t = "Length"
    /\ last.op = "decode"
    /\ last.rem.some
    /\ Len(last.win) + last.rem.v < last.pre.remaining_bytes

Frame(i, n) == SubSeq(stream, (i - 1) * n + 1, i * n)

\* C4: premature end of a frame. A Length::decode call whose window and hint
\* together hold fewer bytes than the frame still misses fails with
\* UnexpectedEos, consumes nothing and leaves the decoder (the inner decoder
\* and remaining_bytes) as it was; so decoding n-byte frames from the whole
\* stream at end-of-stream yields one item per complete frame and fails with
\* UnexpectedEos on every call after them.
C4_PrematureEnd ==
    /\ PrematureEnd =>
           (last.r = Err("UnexpectedEos") /\ last.n = 0 /\ dec = last.pre)
    /\ (dec0.t = "Length" /\ dec0.inner = RestDecoder /\ wholeEos
            /\ last.op = "decode") =>
           IF calls <= Len(stream) \div dec0.expected_bytes
           THEN /\ last.r = OkSome(Frame(calls, dec0.expected_bytes))
                /\ Len(items) = calls
           ELSE /\ last.r = Err("UnexpectedEos")
                /\ Len(items) = Len(stream) \div dec0.expected_bytes

\* test::decoder_length_works: 3-byte frames from the 8 bytes at
\* end-of-stream; the third call finds 2 bytes and fails.
C4_Witness ==
    /\ PrematureEnd
    /\ stream = Foobarba /\ wholeEos
    /\ calls = 3
    /\ items = <<Frame(1, 3), Frame(2, 3)>>
    /\ Len(last.win) = 2
    /\ last.r = Err("UnexpectedEos")


\* ====================================================================== C5
MaxBytesScope ==
    /\ dec0.t = "MaxBytes"
    /\ last.op = "decode"
    /\ ~last.failedBefore

\* C5: the decode budget of MaxBytes(m) holds across calls. Counting from the
\* last yielded item, the bytes offered to the inner decoder never exceed m in
\* total; a call that brings the consumption to m without an item fails with
\* InvalidInput; and the counter is zero after each yielded item.
C5_DecodeBudget ==
    MaxBytesScope =>
        /\ last.pend + Min(Len(last.win), max_remaining_bytes(last.pre))
               <= dec0.max_bytes
        /\ last.pend + last.n <= dec0.max_bytes
        /\ (last.pend + last.n = dec0.max_bytes /\ last.r.k # "some") =>
               last.r.k = "err"
        /\ last.r.k = "some" => dec.consumed_bytes = 0

\* ====================================================================== C7
\* C7: Take cutoff. Take(k) yields at most k items; has_terminated() is true
\* once k items were yielded (from construction when k = 0); and every decode
\* call made after the k-th item fails with DecoderTerminated, consumes no
\* byte and leaves the inner decoder as it was.
C7_TakeCutoff ==
    dec0.t = "Take" =>
        /\ Len(items) <= dec0.limit
        /\ Len(items) = dec0.limit => has_terminated(dec)
        /\ (last.op = "decode" /\ Len(items) = dec0.limit /\ last.r.k # "some")
               => /\ last.r = Err("DecoderTerminated")
                  /\ last.n = 0
                  /\ dec = last.pre

\* A call with bytes on offer, made after the second of two items.
C7_Witness ==
    /\ dec0.t = "Take" /\ dec0.limit = 2
    /\ Len(items) = 2
    /\ last.op = "decode" /\ last.r.k = "err"
    /\ Len(last.win) > 0

\* ====================================================================== C8
\* C8: termination is final. Once has_terminated() has been true, no later
\* decode call on the instance returns Ok(Some(_)).
C8_TerminationFinal ==
    (last.op = "decode" /\ last.termBefore) => last.r.k # "some"

\* ====================================================================== C9
\* An item is in progress: bytes were consumed since the last yielded item,
\* or the combinator holds a partial item.
InProgress ==
    \/ pos - mark > 0
    \/ dec.t = "Collect" /\ dec.items.some
    \/ dec.t = "SkipRemaining" /\ dec.item.some
    \/ dec.t = "AndThen" /\ dec.decoder1.some

\* C9: idle excludes in-progress. For Take, Length, AndThen, Collect,
\* SkipRemaining and MaxBytes, is_idle() is false whenever an item is in
\* progress.
C9_IdleExcludesInProgress ==
    (/\ dec0.t \in {"Take", "Length", "AndThen", "Collect", "SkipRemaining",
                    "MaxBytes"}
     /\ ~failed
     /\ InProgress) => ~is_idle(dec)


\* ===================================================================== C10
RECURSIVE Flatten(_)
Flatten(ss) == IF ss = <<>> THEN <<>> ELSE Head(ss) \o Flatten(Tail(ss))

CollectScope ==
    /\ dec0.t = "Collect"
    /\ last.op = "decode"
    /\ ~last.failedBefore
    /\ last.r.k \in {"some", "none"}

\* Collect over inner decoders whose items are, back to back, the bytes they
\* consumed: fixed-size items, framed items, and Take over them.
ItemsAreBytes ==
    dec0 \in {Collect_new(F1), Collect_new(F2),
              Collect_new(Length_new(RestDecoder, 2))}
             \cup {Collect_new(Take_new(F1, k)) : k \in 0..2}

ItemSize == IF dec0.decoder.t = "Take" THEN 1
            ELSE IF dec0.decoder.t = "Fixed" THEN dec0.decoder.n
            ELSE dec0.decoder.expected_bytes

\* The bytes consumed since the aggregate was started, the last call included.
SinceStart == SubSeq(stream, pos - last.n - last.pend + 1, pos)

\* The aggregate returned by the last call, or the partial one it left.
Aggregate == IF last.r.k = "some" THEN last.r.v ELSE dec.items.v

\* C10: Collect aggregation. A Collect::decode call returns the aggregate if,
\* when it returns, the inner decoder has terminated or the buffer is empty
\* at end-of-stream, and Ok(None) otherwise (the inner decoder suspended); the
\* aggregate holds, in decode order, exactly the complete items of the bytes
\* consumed since the aggregate was started, earlier calls included (bytes of
\* an item the inner decoder has not yielded yet are not part of it).
C10_CollectAggregation ==
    CollectScope =>
        /\ last.r.k = "some" <=>
               \/ has_terminated(dec.decoder)
               \/ last.left.bytes = <<>> /\ last.rem = Some(0)
        /\ last.r.k = "none" => (dec.items.some /\ last.left.bytes = <<>>)
        /\ ItemsAreBytes =>
               /\ IsPrefix(Flatten(Aggregate), SinceStart)
               /\ Len(SinceStart) - Len(Flatten(Aggregate)) < ItemSize
               /\ \A i \in 1..Len(Aggregate) : Len(Aggregate[i]) = ItemSize

\* An aggregate of two items or more, part of it decoded in an earlier call
\* that returned Ok(None).
C10_Witness ==
    /\ CollectScope
    /\ last.r.k = "some"
    /\ last.pend > 0
    /\ last.n > 0
    /\ Len(last.r.v) >= 2


\* ====================================================================== C6
EncBudgetScope ==
    /\ enc0.t = "MaxBytes"
    /\ cur.some
    /\ ~efailed \/ (elast.op = "encode" /\ ~elast.failedBefore)

\* The call wrote the last byte of the budget for an item that needs more.
LimitReached ==
    /\ elast.op = "encode"
    /\ Len(written) = enc0.max_bytes
    /\ Len(cur.v) > enc0.max_bytes

\* The parts of the budget that do not depend on how the limit is reported:
\* the bytes written for one item never exceed m and are the item's first
\* bytes; InvalidInput is returned only when the limit is reached by a longer
\* item; when an item of at most m bytes is complete the counter is 0, and it
\* is 0 after every successful start_encoding.
BudgetKept ==
    /\ Len(written) <= enc0.max_bytes
    /\ IsPrefix(written, cur.v)
    /\ (elast.op = "encode" /\ elast.r = Err("InvalidInput")) => LimitReached
    /\ (elast.op = "encode" /\ elast.r.k = "ok" /\ written = cur.v) =>
           (enc.consumed_bytes = 0 /\ enc_is_idle(enc))
    /\ (elast.op = "start" /\ elast.r.k = "ok") => enc.consumed_bytes = 0

\* C6 (as stated): the encode budget of MaxBytes(m) is kept, and every call
\* that emits the m-th byte of an item needing more than m bytes fails with
\* InvalidInput.
C6_EncodeBudgetInvalidInput ==
    EncBudgetScope =>
        /\ BudgetKept
        /\ LimitReached => elast.r = Err("InvalidInput")

\* C6 (amended): the encode budget of MaxBytes(m) is kept, and a call that
\* emits the m-th byte of an item needing more than m bytes fails: with the
\* inner encoder's own error (UnexpectedEos) when the buffer offered is within
\* the remaining budget and flagged as the end of the output, and with
\* InvalidInput in every other case.
C6_EncodeBudget ==
    EncBudgetScope =>
        /\ BudgetKept
        /\ LimitReached =>
               IF elast.eos /\ elast.len <= max_remaining_bytes(elast.pre)
               THEN elast.r = Err("UnexpectedEos")
               ELSE elast.r = Err("InvalidInput")

\* test::encoder_max_bytes_works: a 3-byte item fits max_bytes(3); the next
\* item, 5 bytes into a 4-byte buffer, fails with InvalidInput after 3 bytes.
C6_Witness ==
    /\ enc0 = MaxBytes_new(BytesEncoder, 3)
    /\ ops = 4
    /\ cur = Some(Hello)
    /\ elast.op = "encode" /\ elast.len = 4 /\ elast.eos
    /\ elast.r = Err("InvalidInput")
    /\ written = Prefix(Hello, 3)

\* ===================================================================== C11
\* C11: Collect is one-shot. Over the calls of one Collect instance (none of
\* which failed before), at most one returns Ok(Some(aggregate)): once an
\* aggregate has been returned, no later decode call returns Ok(Some(_)).
C11_CollectOneShot ==
    (/\ dec0.t = "Collect"
     /\ last.op = "decode"
     /\ ~last.failedBefore
     /\ last.r.k = "some") => Len(items) = 1

\* ===================================================================== C12
LengthEncScope ==
    /\ enc0 \in LengthEncConfigs
    /\ cur.some
    /\ elast.op = "encode"
    /\ ~elast.failedBefore

\* Bytes of the frame still to be written when the last call was made.
FrameLeft == elast.pre.remaining_bytes

\* Bytes of the item still to be written when the last call was made.
ItemLeft == Len(cur.v) - (Len(written) - Len(elast.out))

\* The last call was refused at once: a short buffer flagged as the last one.
ShortLastBuffer == elast.len < FrameLeft /\ elast.eos

\* C12: the frame of the Length(n) encoder. A call writes at most the bytes
\* left in the frame, and the bytes written never exceed n (no byte beyond
\* the frame is written); a call whose buffer reaches the frame edge ends the
\* inner encoder's output, so that an item with more bytes left than the
\* frame fails with UnexpectedEos whatever the caller's marker; an item of
\* exactly n bytes is written as exactly its n bytes; an item longer than n
\* bytes fails with UnexpectedEos at the frame edge; an item shorter than n
\* bytes fails with InvalidInput in the call that completes it; and a buffer
\* shorter than the bytes left in the frame, flagged as the last one, fails
\* with UnexpectedEos, nothing written and the encoder unchanged.
C12_LengthEncoderFrame ==
    LengthEncScope =>
        /\ Len(elast.out) <= Min(elast.len, FrameLeft)
        /\ Len(written) <= enc0.expected_bytes
        /\ IsPrefix(written, cur.v)
        /\ (elast.len >= FrameLeft /\ ItemLeft > FrameLeft) =>
               elast.r = Err("UnexpectedEos")
        /\ Len(cur.v) = enc0.expected_bytes =>
               /\ elast.r.k = "ok" \/ ShortLastBuffer
               /\ enc_is_idle(enc) => written = cur.v
        /\ Len(cur.v) > enc0.expected_bytes =>
               /\ elast.r.k = "err" => elast.r = Err("UnexpectedEos")
               /\ ~enc_is_idle(enc) \/ enc0.expected_bytes = 0
        /\ (/\ Len(cur.v) < enc0.expected_bytes
            /\ ~ShortLastBuffer
            /\ written = cur.v) => elast.r = Err("InvalidInput")
        /\ ShortLastBuffer =>
               /\ elast.r = Err("UnexpectedEos")
               /\ elast.out = <<>>
               /\ enc = elast.pre

\* test::encoder_length_works: a 3-byte item through length(3) into a 4-byte
\* buffer flagged as the last one is written as its 3 bytes.
C12_Witness ==
    /\ enc0 = Length_new(BytesEncoder, 3)
    /\ cur.some /\ Len(cur.v) = 3
    /\ elast.op = "encode" /\ elast.len = 4 /\ elast.eos
    /\ elast.r = OkSize(3)
    /\ written = cur.v

\* ===================================================================== C13
\* An item is mid-encoding: it was started and the inner encoder still holds it.
MidEncoding == cur.some /\ ~enc_is_idle(enc.inner)

\* C13: idleness of the Length encoder. In every state reached without an
\* encode error (the freshly constructed encoder included), is_idle() is true
\* exactly when no item is mid-encoding, and a start_encoding call made while
\* is_idle() was true succeeds (so a second item can follow the first).
C13_LengthEncoderIdle ==
    (enc0 \in LengthEncConfigs /\ ~efailed) =>
        /\ enc_is_idle(enc) <=> ~MidEncoding
        /\ (elast.op = "start" /\ enc_is_idle(elast.pre)) => elast.r.k = "ok"

\* ===================================================================== C14
SetScope == last.op = "set" /\ ~last.failedBefore

\* C14: reconfiguring a Length decoder. set_expected_bytes called when between
\* 1 and n-1 bytes of the current frame have been consumed fails with
\* ErrorKind::Other and leaves the decoder (expected_bytes and remaining_bytes
\* included) unchanged; called when no byte of the frame has been consumed it
\* succeeds and sets expected_bytes and remaining_bytes to the new value.
C14_DecoderSetExpectedBytes ==
    SetScope =>
        /\ (1 <= last.consumed /\ last.consumed <= last.pre.expected_bytes - 1)
               => (last.r = Err("Other") /\ dec = last.pre)
        /\ last.consumed = 0 =>
               /\ last.r = OkUnit
               /\ dec.expected_bytes = last.bytes
               /\ dec.remaining_bytes = last.bytes
               /\ dec.inner = last.pre.inner

\* A new length refused in the middle of a frame, on a decoder whose length
\* had been changed before the frame.
C14_Witness ==
    /\ SetScope
    /\ last.consumed >= 1
    /\ last.consumed <= last.pre.expected_bytes - 1
    /\ last.pre.expected_bytes # dec0.expected_bytes
    /\ last.bytes # last.pre.expected_bytes
    /\ last.r = Err("Other")

\* ===================================================================== C15
EncSetScope ==
    /\ enc0 \in LengthEncConfigs
    /\ elast.op = "set"
    /\ ~elast.failedBefore

\* C15: reconfiguring a Length encoder. set_expected_bytes called while an
\* item is in progress (started, and not yet completely written by the inner
\* encoder) fails with ErrorKind::Other and leaves the encoder unchanged;
\* called while is_idle() is true it succeeds.
C15_EncoderSetExpectedBytes ==
    EncSetScope =>
        /\ (cur.some /\ ~enc_is_idle(elast.pre.inner)) =>
               (elast.r = Err("Other") /\ enc = elast.pre)
        /\ enc_is_idle(elast.pre) => elast.r = OkUnit

\* ===================================================================== C16
\* C16: EncoderFull. For the Repeat, Padding and WithPrefix encoders, a
\* start_encoding call made while is_idle() is false fails with EncoderFull
\* and leaves the encoder, its inner encoder(s) included, unchanged.
C16_EncoderFull ==
    (/\ enc0.t \in {"Repeat", "Padding", "WithPrefix"}
     /\ elast.op = "start"
     /\ ~enc_is_idle(elast.pre)) =>
        (elast.r = Err("EncoderFull") /\ enc = elast.pre)

\* A second item refused by Padding after the first item's bytes and some
\* padding were written.
C16_Witness ==
    /\ enc0.t = "Padding"
    /\ elast.op = "start"
    /\ ~enc_is_idle(elast.pre)
    /\ elast.r = Err("EncoderFull")
    /\ cur.some
    /\ Len(written) > Len(cur.v)

\* ===================================================================== C17
RepeatScope ==
    /\ enc0.t = "Repeat"
    /\ cur.some
    /\ ~efailed

\* The number of items taken from the iterator so far.
Taken == Len(cur.v) - (IF enc.items.some THEN Len(enc.items.v) ELSE 0)

\* The encodings of the first k items of the iterator, back to back.
Encodings(k) == Flatten(Prefix(cur.v, k))

\* C17: Repeat sequencing. Whatever the buffers offered, the bytes produced
\* are the first bytes of the concatenation of the items' encodings in
\* iterator order; an item is taken from the iterator only when the items
\* taken before it are completely written (the inner encoder is idle), and no
\* byte of an item not yet taken is written; an encode call makes Repeat idle
\* exactly when it finds the inner encoder idle and the iterator exhausted,
\* and by then all the bytes have been produced.
C17_RepeatSequencing ==
    RepeatScope =>
        /\ IsPrefix(written, Encodings(Len(cur.v)))
        /\ Taken >= 1 => Len(written) >= Len(Encodings(Taken - 1))
        /\ Len(written) <= Len(Encodings(Taken))
        /\ (elast.op = "encode" /\ ~enc_is_idle(elast.pre)) =>
               (enc_is_idle(enc) <=>
                    /\ enc_is_idle(elast.pre.encoder)
                    /\ elast.pre.items.v = <<>>)
        /\ enc_is_idle(enc) => written = Encodings(Len(cur.v))

\* Two items written back to back, the second in more than one call, and the
\* encoder idle again.
C17_Witness ==
    /\ RepeatScope
    /\ cur.v = <<<<0>>, <<1, 0>>>>
    /\ written = <<0, 1, 0>>
    /\ elast.op = "encode"
    /\ enc_is_idle(enc)
    /\ ops = 5

\* ===================================================================== C18
\* n padding bytes.
Pad(n) == [i \in 1..n |-> 9]

\* C18: Padding fill. After start_encoding, an encode call that finds the
\* inner encoder idle writes the padding byte into every byte of the buffer
\* and returns buf.len(), and the bytes written are the item's bytes followed
\* by padding bytes only. Inside a Length(n) frame the bytes written are the
\* first bytes of the item followed by padding, never more than n of them,
\* and exactly n (the item, then padding up to n) once the frame is complete.
C18_PaddingFill ==
    /\ (/\ enc0 \in PaddingEncConfigs
        /\ cur.some
        /\ elast.op = "encode"
        /\ ~elast.failedBefore) =>
           /\ enc_is_idle(elast.pre.encoder) =>
                  (elast.out = Pad(elast.len) /\ elast.r = OkSize(elast.len))
           /\ IsPrefix(written, cur.v \o Pad(Len(written)))
    /\ (/\ enc0 \in PaddingFrameConfigs
        /\ cur.some
        /\ ~efailed) =>
           /\ Len(written) <= enc0.expected_bytes
           /\ IsPrefix(written, cur.v \o Pad(enc0.expected_bytes))
           /\ enc_is_idle(enc) =>
                  written = Prefix(cur.v \o Pad(enc0.expected_bytes),
                                   enc0.expected_bytes)

\* test::padding_works: a one-byte item through padding(9).length(3); the
\* first call wrote the item, the last call is offered the 3 bytes left of a
\* 4-byte buffer and writes the two padding bytes of the frame.
C18_Witness ==
    /\ enc0 = Length_new(Padding_new(BytesEncoder, 9), 3)
    /\ cur = Some(<<1>>)
    /\ ~efailed
    /\ elast.op = "encode" /\ elast.len = 3
    /\ elast.r = OkSize(2)
    /\ written = <<1, 9, 9>>
    /\ enc_is_idle(enc)

\* ===================================================================== C19
\* C19: idleness of Padding. After a successful start_encoding is_idle() is
\* false; an encode call made while it is false and returning successfully
\* makes it true exactly when the call carries the end-of-stream marker,
\* whether it wrote item bytes or padding bytes; and once true it stays true
\* over encode calls, until the next start_encoding.
C19_PaddingIdle ==
    (/\ enc0 \in PaddingEncConfigs
     /\ cur.some
     /\ ~efailed) =>
        /\ (elast.op = "start" /\ elast.r.k = "ok") => ~enc_is_idle(enc)
        /\ (elast.op = "encode" /\ ~enc_is_idle(elast.pre)) =>
               (enc_is_idle(enc) <=> elast.eos)
        /\ (elast.op = "encode" /\ enc_is_idle(elast.pre)) => enc_is_idle(enc)

\* ===================================================================== C20
WithPrefixScope ==
    /\ enc0.t = "WithPrefix"
    /\ cur.some
    /\ ~efailed

\* The prefix of the item in progress: its length as one byte, or the marker.
PrefixBytes == IF enc0.with_prefix = "len" THEN <<Len(cur.v)>> ELSE <<7, 8>>

\* C20: WithPrefix ordering. A successful start_encoding leaves the body
\* encoder started with the item and the prefix encoder started with the
\* prefix computed from the started body encoder; an encode call made while
\* the prefix encoder is not idle leaves the body encoder untouched (no body
\* byte is produced); whatever the buffers offered, the bytes produced are the
\* first bytes of the prefix encoding followed by the body encoding, and all
\* of them once the encoder is idle again.
C20_WithPrefixOrdering ==
    WithPrefixScope =>
        /\ (elast.op = "start" /\ elast.r.k = "ok") =>
               /\ enc.body_encoder.bytes = Some(cur.v)
               /\ enc.prefix_encoder.bytes = Some(PrefixBytes)
               /\ enc.body_encoder.offset = 0
               /\ enc.prefix_encoder.offset = 0
        /\ (elast.op = "encode" /\ ~enc_is_idle(elast.pre.prefix_encoder)) =>
               /\ enc.body_encoder = elast.pre.body_encoder
               /\ Len(written) <= Len(PrefixBytes)
        /\ IsPrefix(written, PrefixBytes \o cur.v)
        /\ enc_is_idle(enc) => written = PrefixBytes \o cur.v

\* A two-byte prefix written in two calls, then a two-byte body.
C20_Witness ==
    /\ WithPrefixScope
    /\ enc0.with_prefix = "magic"
    /\ cur.v = <<1, 0>>
    /\ written = <<7, 8, 1, 0>>
    /\ elast.op = "encode"
    /\ ops = 4
    /\ enc_is_idle(enc)

\* ===================================================================== C21
SkipScope == dec0.t = "SkipRemaining" /\ last.op = "decode"

\* C21: SkipRemaining. A decode call on a buffer whose hint is unknown fails
\* with InvalidInput, the decoder (its inner decoder included) and the buffer
\* unchanged. With a known hint, a call made once the inner decoder has
\* yielded its item consumes the whole buffer and leaves the inner decoder
\* untouched; it returns the kept item if the buffer is at end-of-stream and
\* Ok(None) otherwise; an item is returned only by a call at end-of-stream,
\* and only once.
C21_SkipRemaining ==
    SkipScope =>
        /\ ~last.rem.some =>
               (last.r = Err("InvalidInput") /\ dec = last.pre /\ last.n = 0)
        /\ (last.rem.some /\ last.pre.item.some /\ ~last.failedBefore) =>
               /\ last.left.bytes = <<>>
               /\ dec.decoder = last.pre.decoder
               /\ last.r = IF last.rem = Some(0) THEN OkSome(last.pre.item.v)
                           ELSE OkNone
        /\ (last.r.k = "some" /\ ~last.failedBefore) =>
               /\ last.rem = Some(0)
               /\ last.left.bytes = <<>>
               /\ ~dec.item.some
               /\ Len(items) = 1

\* The item was yielded by the inner decoder in an earlier call; the last
\* call skipped bytes at end-of-stream and returned it.
C21_Witness ==
    /\ SkipScope
    /\ last.pre.item.some
    /\ last.n > 0
    /\ last.r.k = "some"

\* ===================================================================== C22
AndThenScope ==
    /\ dec0 \in AndThenConfigs
    /\ last.op = "decode"
    /\ ~last.failedBefore

\* The bytes consumed for the item in progress, the last call included.
Segment == SubSeq(stream, pos - last.n - last.pend + 1, pos)

\* The number of bytes of the first item A.
ALen == IF dec0.decoder0 = F2 THEN 2 ELSE 1

\* C22: AndThen sequencing. While a second decoder exists no byte is offered
\* to the first decoder, and the second decoder is kept by every call that
\* returns Ok(None); the item yielded is the item B of the decoder built from
\* the item A decoded just before it (here: the A[1] + 1 bytes that follow
\* A); after B is yielded no second decoder exists, and is_idle() is the
\* first decoder's is_idle().
C22_AndThenSequencing ==
    AndThenScope =>
        /\ last.pre.decoder1.some => dec.decoder0 = last.pre.decoder0
        /\ (last.pre.decoder1.some /\ last.r.k = "none") =>
               /\ dec.decoder1.some
               /\ dec.decoder1.v.t = last.pre.decoder1.v.t
               /\ Len(Segment) >= ALen
               /\ dec.decoder1.v =
                      Decode(and_then_apply(dec0.and_then, Prefix(Segment, ALen)),
                             DecodeBuf(DropN(Segment, ALen), None)).d
        /\ last.r.k = "some" =>
               /\ Len(Segment) = ALen + Segment[1] + 1
               /\ last.r.v = DropN(Segment, ALen)
               /\ ~dec.decoder1.some
               /\ is_idle(dec) = is_idle(dec.decoder0)
        /\ ~dec.decoder1.some => is_idle(dec) = is_idle(dec.decoder0)

\* The second decoder, built in an earlier call, was kept over a call that
\* returned Ok(None) and yields its item in the last call.
C22_Witness ==
    /\ AndThenScope
    /\ last.pre.decoder1.some
    /\ last.pend > ALen
    /\ last.n > 0
    /\ last.r.k = "some"

\* ===================================================================== C23
RoundTripScope ==
    /\ enc0.t = "Length"
    /\ last.op = "decode"
    /\ ~last.failedBefore
    /\ Len(items) - (IF last.r.k = "some" THEN 1 ELSE 0) = 0

\* C23: Length round trip. The bytes a Length(n) encoder produced for an item
\* of n bytes, whatever the output buffers, decoded by a Length(n) decoder
\* over the matching inner decoder, whatever the input windows: no call fails
\* before the item is yielded; the item is yielded by the call that consumes
\* the last of the n bytes (not before, not later); it equals the original;
\* and the decoder is then idle with remaining_bytes = n.
C23_LengthRoundTrip ==
    RoundTripScope =>
        /\ Len(cur.v) = dec0.expected_bytes
        /\ stream = cur.v
        /\ last.r.k \in {"some", "none"}
        /\ last.r.k = "some" <=> (pos = dec0.expected_bytes /\ calls >= 1)
        /\ last.r.k = "some" =>
               /\ last.r.v = cur.v
               /\ items = <<cur.v>>
               /\ dec.remaining_bytes = dec0.expected_bytes
               /\ is_idle(dec)

\* A 3-byte item written in two calls and read back in two windows.
C23_Witness ==
    /\ RoundTripScope
    /\ dec0.expected_bytes = 3
    /\ ops = 3
    /\ calls = 2
    /\ last.n > 0
    /\ last.r = OkSome(cur.v)


\* ---------------------------------------------------------------------- C24
\* A decode call on an Omit decoder.
OmitScope == dec0.t = "Omit" /\ last.op = "decode"

\* What the inner decoder does with the window of the last call.
OmitInner == Decode(last.pre.inner.v, DecodeBuf(last.win, last.rem))

\* C24: an Omit built with do_omit = true returns Ok(Some(None)) from every
\* decode call, consumes no byte, and reports is_idle() true, has_terminated()
\* false and requiring_bytes_hint() Some(0). An Omit built with do_omit =
\* false returns Some(Some(x)) exactly when its inner decoder returns Some(x)
\* and otherwise the inner decoder's result, consumes the same bytes, and
\* reports the inner decoder's termination, idleness and hint.
C24_Omit ==
    OmitScope =>
        IF dec0.inner.some
        THEN /\ last.pre.inner.some
             /\ last.r = IF OmitInner.r.k = "some"
                         THEN OkSome(Some(OmitInner.r.v))
                         ELSE OmitInner.r
             /\ last.left = OmitInner.buf
             /\ dec.inner = Some(OmitInner.d)
             /\ has_terminated(dec) = has_terminated(OmitInner.d)
             /\ is_idle(dec) = is_idle(OmitInner.d)
             /\ requiring_bytes_hint(dec) = requiring_bytes_hint(OmitInner.d)
        ELSE /\ last.r = OkSome(None)
             /\ last.n = 0
             /\ last.left.bytes = last.win
             /\ dec = dec0
             /\ is_idle(dec)
             /\ ~has_terminated(dec)
             /\ requiring_bytes_hint(dec) = Some(0)
             /\ items = [i \in 1..calls |-> None]

\* The second call on an omitting decoder, given a window that holds bytes.
C24_Witness ==
    /\ OmitScope
    /\ dec0 = Omit_new(F1, TRUE)
    /\ calls = 2
    /\ Len(last.win) = 2
    /\ last.r = OkSome(None)
    /\ pos = 0


\* ---------------------------------------------------------------------- C25
\* A call on an Optional encoder.
OptionalScope == enc0.t = "Optional" /\ elast.op \in {"start", "encode"}

\* C25: start_encoding(None) returns Ok and leaves the encoder, the inner
\* encoder included, as it was, so an idle encoder stays idle; an encode call
\* on an idle encoder writes no byte and leaves it idle, so no call that
\* follows start_encoding(None) on an idle encoder produces item bytes.
\* start_encoding(Some(x)) has the result and the effect of the inner
\* encoder's start_encoding(x).
C25_Optional ==
    OptionalScope =>
        /\ (elast.op = "start" /\ ~elast.item.some) =>
               /\ elast.r = OkUnit
               /\ enc = elast.pre
               /\ enc_is_idle(enc) = enc_is_idle(elast.pre.inner)
        /\ (elast.op = "start" /\ elast.item.some) =>
               /\ elast.r = StartEncoding(elast.pre.inner, elast.item.v).r
               /\ enc.inner = StartEncoding(elast.pre.inner, elast.item.v).e
        /\ (elast.op = "encode" /\ enc_is_idle(elast.pre)) =>
               /\ elast.r = OkSize(0)
               /\ elast.out = <<>>
               /\ enc_is_idle(enc)
        /\ (elast.op = "start" /\ ~elast.item.some /\ enc_is_idle(elast.pre)) =>
               \A len \in 0..MaxBuf, eos \in BOOLEAN :
                   /\ Encode(enc, len, Eos_new(eos)).out = <<>>
                   /\ Encode(enc, len, Eos_new(eos)).r = OkSize(0)

\* start_encoding(None) on an encoder that has finished an item, followed by
\* an encode call on a buffer with room.
C25_Witness ==
    /\ OptionalScope
    /\ enc0 = Optional_new(BytesEncoder)
    /\ cur = Some(None)
    /\ elast.op = "encode"
    /\ elast.len = 2
    /\ enc_is_idle(elast.pre)
    /\ ops = 4


\* ---------------------------------------------------------------------- C26
\* A comparison has been made.
CmpScope == bcOrd.done

\* C26: partial_cmp of two Finite counts is the numeric comparison; Infinite
\* is Greater than every Finite (and a Finite is Less than Infinite) and Equal
\* to Infinite; a comparison with Unknown on either side is None; and
\* partial_cmp(x, y) is the reverse of partial_cmp(y, x).
C26_ByteCountOrder ==
    CmpScope =>
        /\ (bcSelf.t = "Finite" /\ bcOther.t = "Finite") =>
               /\ bcOrd.v.some
               /\ bcOrd.v.v = "Less" <=> bcSelf.n < bcOther.n
               /\ bcOrd.v.v = "Equal" <=> bcSelf.n = bcOther.n
               /\ bcOrd.v.v = "Greater" <=> bcSelf.n > bcOther.n
        /\ (bcSelf.t = "Infinite" /\ bcOther.t = "Finite") =>
               bcOrd.v = Some("Greater")
        /\ (bcSelf.t = "Finite" /\ bcOther.t = "Infinite") =>
               bcOrd.v = Some("Less")
        /\ (bcSelf.t = "Infinite" /\ bcOther.t = "Infinite") =>
               bcOrd.v = Some("Equal")
        /\ (bcSelf.t = "Unknown" \/ bcOther.t = "Unknown") => bcOrd.v = None
        /\ bcOrd.v = reverse(partial_cmp(bcOther, bcSelf))

\* Infinite has been compared with Unknown.
C26_Witness ==
    /\ CmpScope
    /\ bcSelf = Infinite
    /\ bcOther = Unknown
    /\ bcOrd.v = None


\* ---------------------------------------------------------------------- C27
\* A consume or read call has been made on the DecodeBuf.
CursorScope == dlast.op \in {"consume", "read"}

\* The part of the claim that holds of every call: the offset stays within
\* the window, read copies min(available, destination length) bytes from the
\* cursor and advances by that amount, and is_eos() is true exactly when the
\* hint is Some(0).
CursorHolds ==
    CursorScope =>
        /\ dbuf.offset \in 0..Len(dbuf.buf)
        /\ dbuf.buf = dlast.pre.buf
        /\ dbuf.remaining_bytes = dlast.pre.remaining_bytes
        /\ DecodeBuf_is_eos(dbuf) <=> dbuf.remaining_bytes = Some(0)
        /\ dlast.op = "read" =>
               /\ dlast.r.size
                      = Min(Len(dlast.pre.buf) - dlast.pre.offset, dlast.len)
               /\ dlast.data = SubSeq(dlast.pre.buf, dlast.pre.offset + 1,
                                      dlast.pre.offset + dlast.r.size)
               /\ dbuf.offset = dlast.pre.offset + dlast.r.size

\* C27: after any sequence of consume and read calls the offset has not
\* decreased and does not exceed the window length; consume(size) with
\* offset + size greater than the window length fails with InvalidInput and
\* leaves the offset unchanged; read copies min(available, destination length)
\* bytes and advances the offset by that amount; is_eos() is true exactly when
\* the remaining-bytes hint is Some(0).
C27_DecodeBufCursor ==
    /\ CursorHolds
    /\ CursorScope =>
           /\ dbuf.offset >= dlast.pre.offset
           /\ (dlast.op = "consume"
                  /\ dlast.pre.offset + dlast.size > Len(dlast.pre.buf)) =>
                  /\ dlast.r = Err("InvalidInput")
                  /\ dbuf.offset = dlast.pre.offset
           /\ (dlast.op = "consume"
                  /\ dlast.pre.offset + dlast.size <= Len(dlast.pre.buf)) =>
                  /\ dlast.r = OkUnit
                  /\ dbuf.offset = dlast.pre.offset + dlast.size


\* ---------------------------------------------------------------------- C28
\* Repeat over Length(n), n > 0, started with at least one item, every item
\* exactly n bytes long; no call has failed before the last one.
RepeatFrameScope ==
    /\ enc0 \in RepeatLengthConfigs
    /\ cur.some
    /\ cur.v # <<>>
    /\ \A i \in 1..Len(cur.v) : Len(cur.v[i]) = enc0.encoder.expected_bytes
    /\ elast.op = "encode"
    /\ ~elast.failedBefore

\* C28: Repeat over a Length(n) encoder, n > 0, given items of exactly n bytes
\* each, writes the items as consecutive n-byte frames in order and is idle
\* once all are written; no encode call fails.
C28_RepeatFrames ==
    RepeatFrameScope =>
        /\ elast.r.k = "ok"
        /\ IsPrefix(written, Flatten(cur.v))
        /\ enc_is_idle(enc) => written = Flatten(cur.v)


\* ---------------------------------------------------------------------- C29
\* An encode call made on an encoder that reported idle: before the first
\* start_encoding, or after the previous item was finished.
IdleEncodeScope ==
    /\ elast.op = "encode"
    /\ ~elast.failedBefore
    /\ enc_is_idle(elast.pre)

\* C29: an encode call on an idle Repeat, Padding, WithPrefix or Length
\* encoder returns Ok(0), writes no byte and leaves the encoder, is_idle()
\* and its counters included, as it was, whatever the buffer size and the
\* end-of-stream marker.
C29_IdleEncodeNoOp ==
    IdleEncodeScope =>
        /\ elast.r = OkSize(0)
        /\ elast.out = <<>>
        /\ enc_is_idle(enc)
        /\ enc = elast.pre


\* ---------------------------------------------------------------------- C30
\* The Length codec of the run, decoder or encoder.
CounterCodec == IF dec0.t = "Length" THEN dec ELSE enc

\* C30: in every state of a Length decoder or encoder, after any sequence of
\* decode, encode, start_encoding and set_expected_bytes calls, successful or
\* not, 0 <= remaining_bytes <= expected_bytes; a call never moves more bytes
\* than remaining_bytes held before it, so the subtraction does not underflow
\* (a call that fails inside the inner codec leaves the counter as it was).
C30_LengthCounterBounds ==
    /\ CounterCodec.t = "Length"
    /\ CounterCodec.remaining_bytes >= 0
    /\ CounterCodec.remaining_bytes <= CounterCodec.expected_bytes
    /\ last.op = "decode" =>
           /\ last.n <= last.pre.remaining_bytes
           /\ dec.remaining_bytes
                  \in {last.pre.remaining_bytes - last.n, dec.expected_bytes,
                       last.pre.remaining_bytes}
    /\ elast.op = "encode" =>
           /\ Len(elast.out) <= elast.pre.remaining_bytes
           /\ enc.remaining_bytes
                  \in {elast.pre.remaining_bytes - Len(elast.out),
                       elast.pre.remaining_bytes}

\* A decoder built for 2 bytes, set to 3, in the middle of a frame.
C30_Witness ==
    /\ dec0 = Length_new(RestDecoder, 2)
    /\ last.op = "decode"
    /\ dec.expected_bytes = 3
    /\ dec.remaining_bytes = 1
    /\ last.n = 2


\* ---------------------------------------------------------------------- C31
\* A decode call on a Collect decoder.
CollectCallScope == dec0.t = "Collect" /\ last.op = "decode"

\* One more pass of the loop from where the last call was left: the loop
\* condition holds, the inner decoder yields an item, and the inner decoder
\* and the buffer are what they were, so every later pass is the same.
CollectCycle ==
    LET x == Decode(dec.decoder, last.left)
    IN  /\ ~((is_empty(last.left) /\ is_eos(last.left))
             \/ has_terminated(dec.decoder))
        /\ x.r.k = "some"
        /\ x.d = dec.decoder
        /\ x.buf = last.left

\* Whenever the loop was still running after LoopFuel passes, it had entered
\* a cycle: the call does not return.
DivergeIsCycle == (CollectCallScope /\ last.r.k = "diverge") => CollectCycle

\* C31: every Collect::decode call returns after finitely many inner decode
\* calls, whatever the buffer and the inner decoder, an omitting Omit
\* included.
C31_CollectReturns == CollectCallScope => last.r.k # "diverge"

====
